---- MODULE Spec2Model ----
(***************************************************************************)
(* A model of centsh: the Ledger (src/src/models.rs), the input forms and  *)
(* the key handler (src/src/main.rs) and the storage boundary              *)
(* (src/src/storage.rs).                                                   *)
(*                                                                         *)
(* Representation.                                                         *)
(*  - A String is a sequence of one-character strings.                     *)
(*  - A NaiveDate is a record [y, m, d] of a proleptic Gregorian date.     *)
(*  - An f64 is an integer number of hundredths; arithmetic on it is exact *)
(*    (rounding error, infinities and NaN are outside the model).          *)
(*  - A u64 identifier is a natural number; the counters stay far below    *)
(*    2^64 within the bounds.                                              *)
(***************************************************************************)
EXTENDS Integers, Sequences, FiniteSets, TLC

VARIABLES
    ledger,            \* App.ledger: [transactions, budgets, next_tx_id, next_budget_id]
    disk,              \* Storage's file: [kind: "absent", "corrupt" or "file", data]
    form,              \* App.form: [kind, fields, index]
    active_tab,        \* App.active_tab
    show_suggestions,  \* App.show_suggestions
    last_message,      \* App.last_message
    last_save,         \* App.last_save: "None" or "Some"
    status,            \* what the session did last: "running", "quit" or "error"
    now,               \* Local::now().naive_local().date()
    view,              \* what the last draw computed from the ledger: [shown, overview]
    ev,                \* the last event: [op, key, form, io, args, msg]
    nkeys              \* number of events handled so far

vars == <<ledger, disk, form, active_tab, show_suggestions, last_message,
          last_save, status, now, view, ev, nkeys>>

----------------------------------------------------------------------------
(* Evaluation *)

\* F(e), with e evaluated once, before F: what a Rust `let` does. It keeps the
\* folds below linear in the number of steps.
Let(e, F(_)) == CHOOSE r \in {F(x) : x \in {e}} : TRUE

----------------------------------------------------------------------------
(* Strings *)

Str_General   == <<"G","e","n","e","r","a","l">>
Str_Housing   == <<"H","o","u","s","i","n","g">>
Str_Food      == <<"F","o","o","d">>
Str_food      == <<"f","o","o","d">>
Str_Transport == <<"T","r","a","n","s","p","o","r","t">>
Str_Income    == <<"I","n","c","o","m","e">>
Str_Fun       == <<"F","u","n">>
Str_Work      == <<"W","o","r","k">>
Str_Savings   == <<"S","a","v","i","n","g","s">>

\* the sample descriptions ("Cafe cowork" stands for the accented original)
Str_Paycheck == <<"P","a","y","c","h","e","c","k">>
Str_Rent == <<"R","e","n","t">>
Str_Groceries == <<"G","r","o","c","e","r","i","e","s">>
Str_Coffee_snacks == <<"C","o","f","f","e","e"," ","+"," ","s","n","a","c","k","s">>
Str_Ride_share == <<"R","i","d","e"," ","s","h","a","r","e">>
Str_Utilities == <<"U","t","i","l","i","t","i","e","s">>
Str_Concert_night == <<"C","o","n","c","e","r","t"," ","n","i","g","h","t">>
Str_Cafe_cowork == <<"C","a","f","e"," ","c","o","w","o","r","k">>
Str_Savings_transfer == <<"S","a","v","i","n","g","s"," ","t","r","a","n","s","f","e","r">>
Str_Bonus == <<"B","o","n","u","s">>
Str_Gas == <<"G","a","s">>
Str_Streaming == <<"S","t","r","e","a","m","i","n","g">>

IsSpace(c) == c = " "

RECURSIVE TrimStart(_)
TrimStart(s) ==
    IF s # <<>> /\ IsSpace(Head(s)) THEN TrimStart(Tail(s)) ELSE s

RECURSIVE TrimEnd(_)
TrimEnd(s) ==
    IF s # <<>> /\ IsSpace(s[Len(s)]) THEN TrimEnd(SubSeq(s, 1, Len(s) - 1)) ELSE s

\* variant: only the leading whitespace is taken off
Trim_start_only(s) == TrimStart(s)

\* str::trim
Trim(s) == TrimEnd(TrimStart(s))

DigitChars == <<"0","1","2","3","4","5","6","7","8","9">>

IsDigit(c) == \E i \in 1..10 : DigitChars[i] = c

DigitVal(c) == (CHOOSE i \in 1..10 : DigitChars[i] = c) - 1

\* the value of a run of decimal digits
RECURSIVE DigitsVal(_)
DigitsVal(s) ==
    IF s = <<>> THEN 0
    ELSE DigitsVal(SubSeq(s, 1, Len(s) - 1)) * 10 + DigitVal(s[Len(s)])

\* the length of the longest prefix of s made of digits, at most max long
RECURSIVE DigitRun(_, _)
DigitRun(s, max) ==
    IF s = <<>> \/ max = 0 \/ ~IsDigit(Head(s)) THEN 0
    ELSE 1 + DigitRun(Tail(s), max - 1)

\* n written in decimal, zero-padded to at least width digits (n >= 0)
RECURSIVE PadNum(_, _)
PadNum(n, width) ==
    IF n < 10 /\ width <= 1 THEN <<DigitChars[n + 1]>>
    ELSE Append(PadNum(n \div 10, width - 1), DigitChars[(n % 10) + 1])

----------------------------------------------------------------------------
(* chrono::NaiveDate *)

Date(y, m, d) == [y |-> y, m |-> m, d |-> d]

IsLeap(y) == (y % 4 = 0 /\ y % 100 # 0) \/ y % 400 = 0

DaysInMonth(y, m) ==
    IF m = 2 THEN (IF IsLeap(y) THEN 29 ELSE 28)
    ELSE IF m \in {4, 6, 9, 11} THEN 30 ELSE 31

IsValidYmd(y, m, d) == m \in 1..12 /\ d >= 1 /\ d <= DaysInMonth(y, m)

\* Ord for NaiveDate: -1, 0 or 1
DateCmp(a, b) ==
    IF a.y # b.y THEN (IF a.y < b.y THEN -1 ELSE 1)
    ELSE IF a.m # b.m THEN (IF a.m < b.m THEN -1 ELSE 1)
    ELSE IF a.d # b.d THEN (IF a.d < b.d THEN -1 ELSE 1)
    ELSE 0

\* days since 1970-01-01
DaysFromCivil(date) ==
    LET y   == IF date.m <= 2 THEN date.y - 1 ELSE date.y
        era == y \div 400
        yoe == y - era * 400
        mp  == IF date.m > 2 THEN date.m - 3 ELSE date.m + 9
        doy == (153 * mp + 2) \div 5 + date.d - 1
        doe == yoe * 365 + yoe \div 4 - yoe \div 100 + doy
    IN  era * 146097 + doe - 719468

CivilFromDays(n) ==
    LET z   == n + 719468
        era == z \div 146097
        doe == z - era * 146097
        yoe == (doe - doe \div 1460 + doe \div 36524 - doe \div 146096) \div 365
        doy == doe - (365 * yoe + yoe \div 4 - yoe \div 100)
        mp  == (5 * doy + 2) \div 153
        d   == doy - (153 * mp + 2) \div 5 + 1
        m   == IF mp < 10 THEN mp + 3 ELSE mp - 9
        y   == yoe + era * 400 + (IF m <= 2 THEN 1 ELSE 0)
    IN  Date(y, m, d)

\* NaiveDate - Duration::days(n)
DateMinusDays(date, n) == CivilFromDays(DaysFromCivil(date) - n)

\* NaiveDate::with_day(d).unwrap(); the sample data only uses days 1..27
WithDay(date, d) == Date(date.y, date.m, d)

\* NaiveDate's Display (to_string): YYYY-MM-DD for the years 0..9999, a signed
\* year of at least four digits otherwise
DateToString(date) ==
    (IF date.y \in 0..9999 THEN PadNum(date.y, 4)
     ELSE IF date.y < 0 THEN <<"-">> \o PadNum(0 - date.y, 4)
     ELSE <<"+">> \o PadNum(date.y, 4)) \o <<"-">> \o PadNum(date.m, 2) \o <<"-">> \o PadNum(date.d, 2)

----------------------------------------------------------------------------
(* Parsing *)

\* <f64 as FromStr>::from_str on a string of sign, digit and '.' characters:
\* [+-] digits [ . digits ] with at least one digit in all; anything left
\* over, or no digit at all, is an error. The value is kept in hundredths.
ParseF64(s) ==
    LET neg  == s # <<>> /\ Head(s) = "-"
        body == IF s # <<>> /\ Head(s) \in {"-", "+"} THEN Tail(s) ELSE s
    IN  Let(DigitRun(body, Len(body)), LAMBDA ni :
        Let(SubSeq(body, ni + 1, Len(body)), LAMBDA rest :
        Let(rest # <<>> /\ Head(rest) = ".", LAMBDA dot :
        Let(IF dot THEN Tail(rest) ELSE rest, LAMBDA fr :
        Let(IF dot THEN DigitRun(fr, Len(fr)) ELSE 0, LAMBDA nf :
        Let(DigitsVal(SubSeq(body, 1, ni)) * 100
              + (IF nf = 0 THEN 0
                 ELSE IF nf = 1 THEN DigitVal(fr[1]) * 10
                 ELSE DigitsVal(SubSeq(fr, 1, 2))), LAMBDA mag :
            IF ni + nf = 0 \/ nf # Len(fr)
            THEN [ok |-> FALSE, val |-> 0]
            ELSE [ok |-> TRUE, val |-> IF neg THEN 0 - mag ELSE mag]))))))

\* one numeric item of a chrono format string: leading whitespace is skipped,
\* then 1..width digits are taken (an explicit sign, where allowed, lifts the
\* width limit)
ScanNumber(s0, width, signed) ==
    Let(TrimStart(s0), LAMBDA s :
    Let(signed /\ s # <<>> /\ Head(s) \in {"-", "+"}, LAMBDA sign :
    Let(IF sign THEN Tail(s) ELSE s, LAMBDA body :
    Let(DigitRun(body, IF sign THEN Len(body) ELSE width), LAMBDA n :
    Let(DigitsVal(SubSeq(body, 1, n)), LAMBDA v :
        [ok   |-> n > 0,
         val  |-> IF sign /\ Head(s) = "-" THEN 0 - v ELSE v,
         rest |-> SubSeq(body, n + 1, Len(body))])))))

\* a literal of a chrono format string
ScanLiteral(s, c) ==
    [ok |-> s # <<>> /\ Head(s) = c, rest |-> IF s = <<>> THEN s ELSE Tail(s)]

\* variant: the three numbers are not checked against the calendar
ParseDate_unchecked(s) ==
    Let(ScanNumber(s, 4, TRUE), LAMBDA yr :
    Let(ScanLiteral(yr.rest, "-"), LAMBDA l1 :
    Let(ScanNumber(l1.rest, 2, FALSE), LAMBDA mo :
    Let(ScanLiteral(mo.rest, "-"), LAMBDA l2 :
    Let(ScanNumber(l2.rest, 2, FALSE), LAMBDA dy :
        IF yr.ok /\ l1.ok /\ mo.ok /\ l2.ok /\ dy.ok /\ dy.rest = <<>>
        THEN [ok |-> TRUE, val |-> Date(yr.val, mo.val, dy.val)]
        ELSE [ok |-> FALSE, val |-> Date(0, 1, 1)])))))

\* NaiveDate::parse_from_str(s, "%Y-%m-%d")
ParseDate(s) ==
    Let(ScanNumber(s, 4, TRUE), LAMBDA yr :
    Let(ScanLiteral(yr.rest, "-"), LAMBDA l1 :
    Let(ScanNumber(l1.rest, 2, FALSE), LAMBDA mo :
    Let(ScanLiteral(mo.rest, "-"), LAMBDA l2 :
    Let(ScanNumber(l2.rest, 2, FALSE), LAMBDA dy :
        IF yr.ok /\ l1.ok /\ mo.ok /\ l2.ok /\ dy.ok /\ dy.rest = <<>>
           /\ IsValidYmd(yr.val, mo.val, dy.val)
        THEN [ok |-> TRUE, val |-> Date(yr.val, mo.val, dy.val)]
        ELSE [ok |-> FALSE, val |-> Date(0, 1, 1)])))))

----------------------------------------------------------------------------
(* models.rs: Ledger *)

Transaction(id, description, amount, category, date) ==
    [id |-> id, description |-> description, amount |-> amount,
     category |-> category, date |-> date]

Budget(id, category, monthly_limit) ==
    [id |-> id, category |-> category, monthly_limit |-> monthly_limit]

\* variant: x goes before the elements of its own date
RECURSIVE InsertByDateDesc_before_equals(_, _)
InsertByDateDesc_before_equals(sorted, x) ==
    IF sorted = <<>> THEN <<x>>
    ELSE IF DateCmp(x.date, Head(sorted).date) >= 0 THEN <<x>> \o sorted
    ELSE <<Head(sorted)>> \o InsertByDateDesc_before_equals(Tail(sorted), x)

\* one insertion of a stable sort: x goes after every element that does not
\* compare greater than it under |a, b| b.date.cmp(&a.date)
RECURSIVE InsertByDateDesc(_, _)
InsertByDateDesc(sorted, x) ==
    IF sorted = <<>> THEN <<x>>
    ELSE IF DateCmp(x.date, Head(sorted).date) > 0 THEN <<x>> \o sorted
    ELSE <<Head(sorted)>> \o InsertByDateDesc(Tail(sorted), x)

RECURSIVE StableSortFrom(_, _)
StableSortFrom(acc, rest) ==
    IF rest = <<>> THEN acc
    ELSE Let(InsertByDateDesc(acc, Head(rest)),
             LAMBDA sorted : StableSortFrom(sorted, Tail(rest)))

\* variant: the pushed row is left where push put it
sort_by_nothing(txs) == txs

\* transactions.sort_by(|a, b| b.date.cmp(&a.date)): a stable sort
sort_by_date_desc(txs) == StableSortFrom(<<>>, txs)

\* variant: the counter is not advanced
add_transaction_same_id(l, description, amount, category, date) ==
    LET tx == Transaction(l.next_tx_id, description, amount, category, date)
    IN  [l EXCEPT !.transactions = StableSortFrom(<<>>, Append(l.transactions, tx))]

add_transaction(l, description, amount, category, date) ==
    LET tx == Transaction(l.next_tx_id, description, amount, category, date)
    IN  Let(Append(l.transactions, tx),
            LAMBDA pushed :
                [l EXCEPT !.next_tx_id = l.next_tx_id + 1,
                          !.transactions = sort_by_date_desc(pushed)])

\* variant: the search never finds a budget
FindNoBudget(budgets, category) == 0

\* iter_mut().find(|b| b.category == category): the first match, 0 for None
FindBudget(budgets, category) ==
    IF \E i \in 1..Len(budgets) : budgets[i].category = category
    THEN CHOOSE i \in 1..Len(budgets) :
            /\ budgets[i].category = category
            /\ \A j \in 1..(i - 1) : budgets[j].category # category
    ELSE 0

\* variant: a new budget takes the next id but the counter stays
add_or_update_budget_same_id(l, category, monthly_limit) ==
    IF \E i \in 1..Len(l.budgets) : l.budgets[i].category = category
    THEN [l EXCEPT !.budgets =
            [i \in 1..Len(l.budgets) |->
                IF l.budgets[i].category = category
                THEN [l.budgets[i] EXCEPT !.monthly_limit = monthly_limit]
                ELSE l.budgets[i]]]
    ELSE [l EXCEPT !.budgets = Append(l.budgets,
                                  Budget(l.next_budget_id, category, monthly_limit))]

add_or_update_budget(l, category, monthly_limit) ==
    Let(FindBudget(l.budgets, category), LAMBDA i :
        IF i # 0
        THEN [l EXCEPT !.budgets[i].monthly_limit = monthly_limit]
        ELSE [l EXCEPT !.next_budget_id = l.next_budget_id + 1,
                       !.budgets = Append(l.budgets,
                                     Budget(l.next_budget_id, category, monthly_limit))])

EmptyLedger ==
    [transactions |-> <<>>, budgets |-> <<>>, next_tx_id |-> 1, next_budget_id |-> 1]

\* the (desc, amount, category, date) tuples of with_sample_data
SampleRows(today) ==
    LET last_month == DateMinusDays(today, 30)
    IN  << <<Str_Paycheck, -410000, Str_Income, WithDay(last_month, 27)>>,
           <<Str_Rent, 170000, Str_Housing, WithDay(today, 1)>>,
           <<Str_Groceries, 14000, Str_Food, WithDay(today, 3)>>,
           <<Str_Coffee_snacks, 3250, Str_Food, WithDay(today, 4)>>,
           <<Str_Ride_share, 2400, Str_Transport, WithDay(today, 5)>>,
           <<Str_Utilities, 22000, Str_Housing, WithDay(today, 7)>>,
           <<Str_Concert_night, 12000, Str_Fun, WithDay(today, 10)>>,
           <<Str_Cafe_cowork, 1850, Str_Work, WithDay(today, 12)>>,
           <<Str_Savings_transfer, 50000, Str_Savings, WithDay(today, 15)>>,
           <<Str_Bonus, -45000, Str_Income, WithDay(today, 16)>>,
           <<Str_Groceries, 9050, Str_Food, WithDay(today, 18)>>,
           <<Str_Gas, 5800, Str_Transport, WithDay(today, 21)>>,
           <<Str_Streaming, 2400, Str_Fun, WithDay(last_month, 16)>> >>

RECURSIVE AddRows(_, _)
AddRows(l, rows) ==
    IF rows = <<>> THEN l
    ELSE Let(add_transaction(l, Head(rows)[1], Head(rows)[2], Head(rows)[3],
                             Head(rows)[4]),
             LAMBDA added : AddRows(added, Tail(rows)))

with_sample_data(today) ==
    AddRows([transactions |-> <<>>,
             budgets |-> << Budget(1, Str_Housing, 180000),
                            Budget(2, Str_Food, 60000),
                            Budget(3, Str_Transport, 25000) >>,
             next_tx_id |-> 1,
             next_budget_id |-> 4],
            SampleRows(today))

\* variant: the month number alone selects the rows
current_month_overview_any_year(l, today) ==
    LET txs == l.transactions
        Step(acc, tx) ==
            IF tx.date.m = today.m
            THEN IF tx.amount < 0
                 THEN <<acc[1] + (0 - tx.amount), acc[2]>>
                 ELSE <<acc[1], acc[2] + tx.amount>>
            ELSE acc
        fold[i \in 0..Len(txs)] ==
            IF i = 0 THEN <<0, 0>>
            ELSE Let(fold[i - 1], LAMBDA acc : Step(acc, txs[i]))
    IN  Let(fold[Len(txs)],
            LAMBDA sums : [total_income |-> sums[1], total_outgoing |-> sums[2],
                           net |-> sums[1] - sums[2]])

\* current_month_overview, with the current date as an argument
current_month_overview(l, today) ==
    LET txs == l.transactions
        InMonth(tx) == tx.date.y = today.y /\ tx.date.m = today.m
        Step(acc, tx) ==
            IF InMonth(tx)
            THEN IF tx.amount < 0
                 THEN <<acc[1] + (0 - tx.amount), acc[2]>>
                 ELSE <<acc[1], acc[2] + tx.amount>>
            ELSE acc
        fold[i \in 0..Len(txs)] ==
            IF i = 0 THEN <<0, 0>>
            ELSE Let(fold[i - 1], LAMBDA acc : Step(acc, txs[i]))
    IN  Let(fold[Len(txs)],
            LAMBDA sums : [total_income |-> sums[1], total_outgoing |-> sums[2],
                           net |-> sums[1] - sums[2]])

(* f64 on whole numbers, for the sums whose rounding matters. A value is a sign
   and a magnitude hi * F64Base + lo below 2^56; a sum is the exact sum rounded
   to 53 significant bits, ties to the even mantissa, as IEEE 754 addition. *)

\* 2^27: the magnitude is kept in two parts so that no part leaves 32 bits
F64Base == 134217728

F64(neg, hi, lo) == [neg |-> neg, hi |-> hi, lo |-> lo]

\* 0.0 (and -0.0, which compares equal to it)
F64Zero == F64(FALSE, 0, 0)

F64Mag(x) == [hi |-> x.hi, lo |-> x.lo]

MagLess(a, b) == a.hi < b.hi \/ (a.hi = b.hi /\ a.lo < b.lo)

MagAdd(a, b) ==
    [hi |-> a.hi + b.hi + (a.lo + b.lo) \div F64Base,
     lo |-> (a.lo + b.lo) % F64Base]

\* a - b for a >= b
MagSub(a, b) ==
    IF a.lo >= b.lo THEN [hi |-> a.hi - b.hi, lo |-> a.lo - b.lo]
    ELSE [hi |-> a.hi - b.hi - 1, lo |-> a.lo + F64Base - b.lo]

\* the distance of neighbouring f64 values at magnitude m: 1 below 2^53, then
\* 2, 4 and 8
F64Ulp(m) ==
    IF m.hi < F64Base \div 2 THEN 1
    ELSE IF m.hi < F64Base THEN 2
    ELSE IF m.hi < 2 * F64Base THEN 4
    ELSE 8

\* round to nearest, ties to even
F64Round(m) ==
    Let(F64Ulp(m), LAMBDA u :
    Let(m.lo % u, LAMBDA r :
    Let(m.lo - r, LAMBDA down :
    Let(IF 2 * r < u THEN down
        ELSE IF 2 * r > u THEN down + u
        ELSE IF (down \div u) % 2 = 0 THEN down
        ELSE down + u, LAMBDA lo :
        IF lo = F64Base THEN [hi |-> m.hi + 1, lo |-> 0]
        ELSE [hi |-> m.hi, lo |-> lo]))))

F64Signed(neg, m) ==
    IF m.hi = 0 /\ m.lo = 0 THEN F64Zero ELSE F64(neg, m.hi, m.lo)

\* a + b
F64Add(a, b) ==
    IF a.neg = b.neg THEN F64Signed(a.neg, F64Round(MagAdd(F64Mag(a), F64Mag(b))))
    ELSE IF MagLess(F64Mag(a), F64Mag(b))
         THEN F64Signed(b.neg, F64Round(MagSub(F64Mag(b), F64Mag(a))))
    ELSE F64Signed(a.neg, F64Round(MagSub(F64Mag(a), F64Mag(b))))

\* -a
F64Neg(a) == F64Signed(~a.neg, F64Mag(a))

\* a < b
F64Less(a, b) ==
    IF a.neg /\ ~b.neg THEN TRUE
    ELSE IF ~a.neg /\ b.neg THEN FALSE
    ELSE IF a.neg THEN MagLess(F64Mag(b), F64Mag(a))
    ELSE MagLess(F64Mag(a), F64Mag(b))

\* current_month_overview on f64 amounts
current_month_overview_f64(l, today) ==
    LET txs == l.transactions
        InMonth(tx) == tx.date.y = today.y /\ tx.date.m = today.m
        Step(acc, tx) ==
            IF InMonth(tx)
            THEN IF F64Less(tx.amount, F64Zero)
                 THEN <<F64Add(acc[1], F64Neg(tx.amount)), acc[2]>>
                 ELSE <<acc[1], F64Add(acc[2], tx.amount)>>
            ELSE acc
        fold[i \in 0..Len(txs)] ==
            IF i = 0 THEN <<F64Zero, F64Zero>>
            ELSE Let(fold[i - 1], LAMBDA acc : Step(acc, txs[i]))
    IN  Let(fold[Len(txs)],
            LAMBDA sums : [total_income |-> sums[1], total_outgoing |-> sums[2],
                           net |-> F64Add(sums[1], F64Neg(sums[2]))])

\* MapAdd on f64 values
MapAddF64(entries, k, delta) ==
    IF \E i \in 1..Len(entries) : entries[i].k = k
    THEN [i \in 1..Len(entries) |->
            IF entries[i].k = k
            THEN [entries[i] EXCEPT !.v = F64Add(entries[i].v, delta)]
            ELSE entries[i]]
    ELSE Append(entries, [k |-> k, v |-> F64Add(F64Zero, delta)])

\* a HashMap<K, f64> under entry(k).or_insert(0.0) += delta, kept as the
\* sequence of its [k, v] entries in order of first insertion
MapAdd(entries, k, delta) ==
    IF \E i \in 1..Len(entries) : entries[i].k = k
    THEN [i \in 1..Len(entries) |->
            IF entries[i].k = k THEN [entries[i] EXCEPT !.v = entries[i].v + delta]
            ELSE entries[i]]
    ELSE Append(entries, [k |-> k, v |-> delta])

\* the orders in which into_iter can hand out n entries: the permutations of 1..n
RECURSIVE PermsOf(_)
PermsOf(S) ==
    IF S = {} THEN {<<>>}
    ELSE UNION {{<<x>> \o p : p \in PermsOf(S \ {x})} : x \in S}

HashOrders(n) == PermsOf(1..n)

\* the bytes of the characters a label is made of
CharCode(c) == IF c = "-" THEN 45 ELSE 48 + DigitVal(c)

\* str::cmp(a, b) = Less: byte-wise lexicographic order
RECURSIVE StrLess(_, _)
StrLess(a, b) ==
    IF b = <<>> THEN FALSE
    ELSE IF a = <<>> THEN TRUE
    ELSE IF Head(a) # Head(b) THEN CharCode(Head(a)) < CharCode(Head(b))
    ELSE StrLess(Tail(a), Tail(b))

\* cmp(a, b) = Less for the two comparators of the derivations:
\* |a, b| b.partial_cmp(a) on numbers and |a, b| a.cmp(b) on strings
KeyBefore(by, a, b) ==
    IF by = "number descending" THEN a > b
    ELSE IF by = "f64 descending" THEN F64Less(b, a)
    ELSE StrLess(a, b)

\* Vec::sort_by as a stable insertion sort of [key, item] pairs
RECURSIVE InsertBy(_, _, _)
InsertBy(sorted, x, by) ==
    IF sorted = <<>> THEN <<x>>
    ELSE IF KeyBefore(by, x.key, Head(sorted).key) THEN <<x>> \o sorted
    ELSE <<Head(sorted)>> \o InsertBy(Tail(sorted), x, by)

RECURSIVE SortFrom(_, _, _)
SortFrom(acc, rest, by) ==
    IF rest = <<>> THEN acc
    ELSE Let(InsertBy(acc, Head(rest), by),
             LAMBDA sorted : SortFrom(sorted, Tail(rest), by))

\* items.sort_by(..) where keys[i] is what the comparator reads of items[i]
sort_by(items, keys, by) ==
    Let(SortFrom(<<>>, [i \in 1..Len(items) |-> [key |-> keys[i], item |-> items[i]]], by),
        LAMBDA sorted : [i \in 1..Len(sorted) |-> sorted[i].item])

\* the entries of the loop "for tx in transactions.filter(Keep) { map[KeyOf(tx)] += ValOf(tx) }"
GroupSum(txs, Keep(_), KeyOf(_), ValOf(_)) ==
    LET fold[i \in 0..Len(txs)] ==
            IF i = 0 THEN <<>>
            ELSE Let(fold[i - 1], LAMBDA acc :
                     IF Keep(txs[i]) THEN MapAdd(acc, KeyOf(txs[i]), ValOf(txs[i]))
                     ELSE acc)
    IN  fold[Len(txs)]

\* variant: the pairs stay in the iteration order of the HashMap
category_spending_unsorted(l, today, order) ==
    LET Keep(tx) == tx.amount > 0 /\ tx.date.y = today.y /\ tx.date.m = today.m
        KeyOf(tx) == tx.category
        ValOf(tx) == tx.amount
    IN  Let(GroupSum(l.transactions, Keep, KeyOf, ValOf), LAMBDA by_category :
            [i \in 1..Len(by_category) |->
                [category |-> by_category[order[i]].k,
                 total |-> by_category[order[i]].v]])

\* category_spending_current_month; order is the iteration order of the HashMap
category_spending_current_month(l, today, order) ==
    LET Keep(tx) == tx.amount > 0 /\ tx.date.y = today.y /\ tx.date.m = today.m
        KeyOf(tx) == tx.category
        ValOf(tx) == tx.amount
    IN  Let(GroupSum(l.transactions, Keep, KeyOf, ValOf), LAMBDA by_category :
        Let([i \in 1..Len(by_category) |->
                [category |-> by_category[order[i]].k,
                 total |-> by_category[order[i]].v]], LAMBDA pairs :
            sort_by(pairs, [i \in 1..Len(pairs) |-> pairs[i].total],
                    "number descending")))

\* the number of categories category_spending_current_month iterates over
CategorySpendingSize(l, today) ==
    Cardinality({l.transactions[i].category : i \in
        {j \in 1..Len(l.transactions) :
            /\ l.transactions[j].amount > 0
            /\ l.transactions[j].date.y = today.y
            /\ l.transactions[j].date.m = today.m}})

\* format!("{y}-{m:02}")
MonthLabel(y, m) ==
    (IF y < 0 THEN <<"-">> \o PadNum(0 - y, 1) ELSE PadNum(y, 1))
        \o <<"-">> \o PadNum(m, 2)

\* variant: months = 0 is not set apart
spending_last_n_months_no_zero_case(l, today, months) ==
    LET earliest == DateMinusDays(today, months * 31)
        Keep(tx) == ~(DateCmp(tx.date, earliest) < 0)
        KeyOf(tx) == <<tx.date.y, tx.date.m>>
        ValOf(tx) == 0 - tx.amount
    IN  Let(GroupSum(l.transactions, Keep, KeyOf, ValOf), LAMBDA bucket :
        Let([i \in 1..Len(bucket) |->
                [label |-> MonthLabel(bucket[i].k[1], bucket[i].k[2]),
                 total |-> bucket[i].v]], LAMBDA series :
            sort_by(series, [i \in 1..Len(series) |-> series[i].label],
                    "string ascending")))

\* spending_last_n_months; the labels differ from bucket to bucket, so the
\* iteration order of the HashMap does not show in the sorted series
spending_last_n_months(l, today, months) ==
    IF months = 0 THEN <<>>
    ELSE LET earliest == DateMinusDays(today, months * 31)
             Keep(tx) == ~(DateCmp(tx.date, earliest) < 0)
             KeyOf(tx) == <<tx.date.y, tx.date.m>>
             ValOf(tx) == 0 - tx.amount
         IN  Let(GroupSum(l.transactions, Keep, KeyOf, ValOf), LAMBDA bucket :
             Let([i \in 1..Len(bucket) |->
                     [label |-> MonthLabel(bucket[i].k[1], bucket[i].k[2]),
                      total |-> bucket[i].v]], LAMBDA series :
                 sort_by(series, [i \in 1..Len(series) |-> series[i].label],
                         "string ascending")))

\* variant: the base has no floor of 50
SuggestedLimit_no_floor(amt) == (amt * 11 + 15) \div 30

\* (base * 1.1 * 100.0).round() / 100.0 for base = max(amt / 3.0, 50.0), in
\* hundredths: amt * 11 / 30 is never half-way between two integers
SuggestedLimit(amt) ==
    IF amt <= 15000 THEN 5500 ELSE (amt * 11 + 15) \div 30

FallbackSuggestions ==
    << [category |-> Str_Housing, suggested_limit |-> 0,
        reason |-> "Add your rent/mortgage so you can track it monthly"],
       [category |-> Str_Food, suggested_limit |-> 0,
        reason |-> "Groceries, coffee, restaurants"],
       [category |-> Str_Savings, suggested_limit |-> 0,
        reason |-> "Pay yourself first"] >>

\* variant: income counts as spend
suggested_budgets_any_amount(l, today, order) ==
    LET cutoff == DateMinusDays(today, 90)
        Keep(tx) == ~(DateCmp(tx.date, cutoff) < 0)
        KeyOf(tx) == tx.category
        ValOf(tx) == IF tx.amount > 0 THEN tx.amount ELSE 0 - tx.amount
    IN  Let(GroupSum(l.transactions, Keep, KeyOf, ValOf), LAMBDA spend :
        Let([i \in 1..Len(spend) |->
                [category |-> spend[i].k,
                 suggested_limit |-> SuggestedLimit(spend[i].v),
                 reason |-> "Last 90 days average + 10% buffer"]], LAMBDA computed :
        Let(IF computed = <<>> THEN FallbackSuggestions ELSE computed,
            LAMBDA suggestions :
                sort_by(suggestions,
                        [i \in 1..Len(suggestions) |-> suggestions[i].suggested_limit],
                        "number descending"))))

\* suggested_budgets; order is the iteration order of the HashMap
suggested_budgets(l, today, order) ==
    LET cutoff == DateMinusDays(today, 90)
        Keep(tx) == ~(DateCmp(tx.date, cutoff) < 0) /\ tx.amount > 0
        KeyOf(tx) == tx.category
        ValOf(tx) == tx.amount
    IN  Let(GroupSum(l.transactions, Keep, KeyOf, ValOf), LAMBDA spend :
        Let([i \in 1..Len(spend) |->
                [category |-> spend[order[i]].k,
                 suggested_limit |-> SuggestedLimit(spend[order[i]].v),
                 reason |-> "Last 90 days average + 10% buffer"]], LAMBDA computed :
        Let(IF computed = <<>> THEN FallbackSuggestions ELSE computed,
            LAMBDA suggestions :
                sort_by(suggestions,
                        [i \in 1..Len(suggestions) |-> suggestions[i].suggested_limit],
                        "number descending"))))

\* the number of categories suggested_budgets iterates over
SuggestedSize(l, today) ==
    Cardinality({l.transactions[i].category : i \in
        {j \in 1..Len(l.transactions) :
            /\ l.transactions[j].amount > 0
            /\ ~(DateCmp(l.transactions[j].date, DateMinusDays(today, 90)) < 0)}})

\* GroupSum on f64 values
GroupSumF64(txs, Keep(_), KeyOf(_), ValOf(_)) ==
    LET fold[i \in 0..Len(txs)] ==
            IF i = 0 THEN <<>>
            ELSE Let(fold[i - 1], LAMBDA acc :
                     IF Keep(txs[i]) THEN MapAddF64(acc, KeyOf(txs[i]), ValOf(txs[i]))
                     ELSE acc)
    IN  fold[Len(txs)]

\* category_spending_current_month on f64 amounts
category_spending_current_month_f64(l, today, order) ==
    LET Keep(tx) == /\ F64Less(F64Zero, tx.amount)
                    /\ tx.date.y = today.y /\ tx.date.m = today.m
        KeyOf(tx) == tx.category
        ValOf(tx) == tx.amount
    IN  Let(GroupSumF64(l.transactions, Keep, KeyOf, ValOf), LAMBDA by_category :
        Let([i \in 1..Len(by_category) |->
                [category |-> by_category[order[i]].k,
                 total |-> by_category[order[i]].v]], LAMBDA pairs :
            sort_by(pairs, [i \in 1..Len(pairs) |-> pairs[i].total],
                    "f64 descending")))

\* the number of categories it iterates over
CategorySpendingSizeF64(l, today) ==
    Cardinality({l.transactions[i].category : i \in
        {j \in 1..Len(l.transactions) :
            /\ F64Less(F64Zero, l.transactions[j].amount)
            /\ l.transactions[j].date.y = today.y
            /\ l.transactions[j].date.m = today.m}})

\* variant: the buckets add the amounts as they are, outflow positive
spending_last_n_months_f64_outflow(l, today, months) ==
    IF months = 0 THEN <<>>
    ELSE LET earliest == DateMinusDays(today, months * 31)
             Keep(tx) == ~(DateCmp(tx.date, earliest) < 0)
             KeyOf(tx) == <<tx.date.y, tx.date.m>>
             ValOf(tx) == tx.amount
         IN  Let(GroupSumF64(l.transactions, Keep, KeyOf, ValOf), LAMBDA bucket :
             Let([i \in 1..Len(bucket) |->
                     [label |-> MonthLabel(bucket[i].k[1], bucket[i].k[2]),
                      total |-> bucket[i].v]], LAMBDA series :
                 sort_by(series, [i \in 1..Len(series) |-> series[i].label],
                         "string ascending")))

\* spending_last_n_months on f64 amounts
spending_last_n_months_f64(l, today, months) ==
    IF months = 0 THEN <<>>
    ELSE LET earliest == DateMinusDays(today, months * 31)
             Keep(tx) == ~(DateCmp(tx.date, earliest) < 0)
             KeyOf(tx) == <<tx.date.y, tx.date.m>>
             ValOf(tx) == F64Neg(tx.amount)
         IN  Let(GroupSumF64(l.transactions, Keep, KeyOf, ValOf), LAMBDA bucket :
             Let([i \in 1..Len(bucket) |->
                     [label |-> MonthLabel(bucket[i].k[1], bucket[i].k[2]),
                      total |-> bucket[i].v]], LAMBDA series :
                 sort_by(series, [i \in 1..Len(series) |-> series[i].label],
                         "string ascending")))

----------------------------------------------------------------------------
(* storage.rs: the ledger file *)

\* serde_json::to_string_pretty(ledger): dates are written as their text
Serialize(l) ==
    [l EXCEPT !.transactions =
        [i \in 1..Len(l.transactions) |->
            [l.transactions[i] EXCEPT !.date = DateToString(l.transactions[i].date)]]]

DeserializeOk(file) ==
    \A i \in 1..Len(file.transactions) : ParseDate(file.transactions[i].date).ok

\* serde_json::from_str::<Ledger>(content)
Deserialize(file) ==
    [file EXCEPT !.transactions =
        [i \in 1..Len(file.transactions) |->
            [file.transactions[i] EXCEPT !.date = ParseDate(file.transactions[i].date).val]]]

\* the file at Storage.path: missing, unreadable as a Ledger, or a written one
FileAbsent == [kind |-> "absent", data |-> EmptyLedger]

FileCorrupt == [kind |-> "corrupt", data |-> EmptyLedger]

FileOf(l) == [kind |-> "file", data |-> Serialize(l)]

\* Storage::load; io is whether the read itself succeeds
Storage_load(file, today, io) ==
    IF file.kind = "absent" THEN [ok |-> TRUE, ledger |-> with_sample_data(today)]
    ELSE IF ~io \/ file.kind = "corrupt" THEN [ok |-> FALSE, ledger |-> EmptyLedger]
    ELSE IF ~DeserializeOk(file.data) THEN [ok |-> FALSE, ledger |-> EmptyLedger]
    ELSE [ok |-> TRUE, ledger |-> Deserialize(file.data)]

\* Storage::save; outcome is "ok", "fail" (nothing written) or "torn" (fs::write
\* failed after truncating the file)
Storage_save(file, l, outcome) ==
    IF outcome = "ok" THEN [ok |-> TRUE, file |-> FileOf(l)]
    ELSE IF outcome = "torn" THEN [ok |-> FALSE, file |-> FileCorrupt]
    ELSE [ok |-> FALSE, file |-> file]

SaveOutcomes == {"ok", "fail", "torn"}

----------------------------------------------------------------------------
(* main.rs: the forms *)

NoForm == [kind |-> "None", fields |-> <<>>, index |-> 0]

TxForm_new(today) ==
    [kind |-> "Transaction",
     fields |-> << <<>>, <<>>, Str_General, DateToString(today) >>,
     index |-> 0]

BudgetForm_new ==
    [kind |-> "Budget", fields |-> << Str_General, <<>> >>, index |-> 0]

\* fields are indexed from 0 in the source and from 1 here
\* variant: the focus wraps round from the last field to the first
TxForm_next_wraps(f) ==
    [f EXCEPT !.index = (f.index + 1) % Len(f.fields)]

TxForm_next(f) ==
    IF f.index + 1 < Len(f.fields) THEN [f EXCEPT !.index = f.index + 1] ELSE f

TxForm_prev(f) ==
    IF f.index > 0 THEN [f EXCEPT !.index = f.index - 1] ELSE f

TxForm_push_char(f, c) ==
    [f EXCEPT !.fields[f.index + 1] = Append(f.fields[f.index + 1], c)]

\* String::pop: nothing happens on an empty string
\* variant: Backspace empties the focused field
TxForm_backspace_clears(f) == [f EXCEPT !.fields[f.index + 1] = <<>>]

TxForm_backspace(f) ==
    LET v == f.fields[f.index + 1]
    IN  IF v = <<>> THEN f
        ELSE [f EXCEPT !.fields[f.index + 1] = SubSeq(v, 1, Len(v) - 1)]

\* variant: the amount is looked at before the description
TxForm_try_submit_amount_first(f, today) ==
    LET Err(msg) == [ok |-> FALSE, err |-> msg]
    IN  Let(Trim(f.fields[1]), LAMBDA description :
        Let(Trim(f.fields[2]), LAMBDA amount_str :
        Let(Trim(f.fields[3]), LAMBDA category :
        Let(Trim(f.fields[4]), LAMBDA date_str :
            IF amount_str = <<>> THEN Err("Amount is required")
            ELSE Let(ParseF64(amount_str), LAMBDA amount :
                 IF ~amount.ok
                 THEN Err("Amount must be a number (use negative for income)")
                 ELSE IF description = <<>> THEN Err("Description is required")
                 ELSE Let(IF date_str = <<>> THEN [ok |-> TRUE, val |-> today]
                          ELSE ParseDate(date_str), LAMBDA date :
                      IF ~date.ok THEN Err("Date must be YYYY-MM-DD")
                      ELSE [ok |-> TRUE,
                            description |-> description,
                            amount |-> amount.val,
                            category |-> IF category = <<>> THEN Str_General
                                         ELSE category,
                            date |-> date.val]))))))

TxForm_try_submit(f, today) ==
    LET Err(msg) == [ok |-> FALSE, err |-> msg]
    IN  Let(Trim(f.fields[1]), LAMBDA description :
        Let(Trim(f.fields[2]), LAMBDA amount_str :
        Let(Trim(f.fields[3]), LAMBDA category :
        Let(Trim(f.fields[4]), LAMBDA date_str :
            IF description = <<>> THEN Err("Description is required")
            ELSE IF amount_str = <<>> THEN Err("Amount is required")
            ELSE Let(ParseF64(amount_str), LAMBDA amount :
                 IF ~amount.ok
                 THEN Err("Amount must be a number (use negative for income)")
                 ELSE Let(IF date_str = <<>> THEN [ok |-> TRUE, val |-> today]
                          ELSE ParseDate(date_str), LAMBDA date :
                      IF ~date.ok THEN Err("Date must be YYYY-MM-DD")
                      ELSE [ok |-> TRUE,
                            description |-> description,
                            amount |-> amount.val,
                            category |-> IF category = <<>> THEN Str_General
                                         ELSE category,
                            date |-> date.val]))))))

BudgetForm_next(f) ==
    IF f.index + 1 < Len(f.fields) THEN [f EXCEPT !.index = f.index + 1] ELSE f

BudgetForm_prev(f) ==
    IF f.index > 0 THEN [f EXCEPT !.index = f.index - 1] ELSE f

BudgetForm_push_char(f, c) ==
    [f EXCEPT !.fields[f.index + 1] = Append(f.fields[f.index + 1], c)]

BudgetForm_backspace(f) ==
    LET v == f.fields[f.index + 1]
    IN  IF v = <<>> THEN f
        ELSE [f EXCEPT !.fields[f.index + 1] = SubSeq(v, 1, Len(v) - 1)]

\* variant: a limit below zero is refused
BudgetForm_try_submit_nonneg(f) ==
    Let(Trim(f.fields[1]), LAMBDA category :
    Let(ParseF64(Trim(f.fields[2])), LAMBDA monthly_limit :
        IF category = <<>> THEN [ok |-> FALSE, err |-> "Category is required"]
        ELSE IF ~monthly_limit.ok \/ monthly_limit.val < 0
             THEN [ok |-> FALSE, err |-> "Monthly limit must be a number (no $ sign)"]
        ELSE [ok |-> TRUE, category |-> category,
              monthly_limit |-> monthly_limit.val]))

BudgetForm_try_submit(f) ==
    Let(Trim(f.fields[1]), LAMBDA category :
    Let(ParseF64(Trim(f.fields[2])), LAMBDA monthly_limit :
        IF category = <<>> THEN [ok |-> FALSE, err |-> "Category is required"]
        ELSE IF ~monthly_limit.ok
             THEN [ok |-> FALSE, err |-> "Monthly limit must be a number (no $ sign)"]
        ELSE [ok |-> TRUE, category |-> category,
              monthly_limit |-> monthly_limit.val]))

----------------------------------------------------------------------------
(* main.rs: App and handle_key *)

Key(code, ch, ctrl) == [code |-> code, ch |-> ch, ctrl |-> ctrl]

NoKey == Key("None", "", FALSE)

\* an event and the form and message it found
Event(op, key, f, io, args) ==
    [op |-> op, key |-> key, form |-> f, io |-> io, args |-> args,
     msg |-> IF op = "key" THEN last_message ELSE ""]

\* format!("Saved to {}", path): the data directory is left out of the text
SavedMessage == "Saved to ledger.json"

\* App::save reduced to what it changes: [ok, disk, last_save, last_message]
App_save(l, file, saved, message, outcome) ==
    Let(Storage_save(file, l, outcome), LAMBDA r :
        IF r.ok
        THEN [ok |-> TRUE, disk |-> r.file, last_save |-> "Some",
              last_message |-> SavedMessage]
        ELSE [ok |-> FALSE, disk |-> r.file, last_save |-> saved,
              last_message |-> message])

\* what every call of handle_key records, and what no call changes
Handled(key, io) ==
    /\ status = "running"
    /\ ev' = Event("key", key, form, io, <<>>)
    /\ nkeys' = nkeys + 1
    /\ UNCHANGED <<now, view>>

IsNextKey(key, f) ==
    \/ key.code \in {"Tab", "Right"}
    \/ key.code = "Enter" /\ f.index + 1 < Len(f.fields)

IsPrevKey(key) == key.code \in {"BackTab", "Left"}

\* variant: Enter submits from any field
IsSubmitKey_any_field(key, f) == key.code = "Enter"

IsSubmitKey(key, f) == key.code = "Enter" /\ ~(f.index + 1 < Len(f.fields))

(* ActiveForm::Transaction *)

TxEsc(key) ==
    /\ form.kind = "Transaction" /\ key.code = "Esc"
    /\ Handled(key, "none")
    /\ form' = NoForm
    /\ last_message' = "Cancelled transaction"
    /\ status' = "running"
    /\ UNCHANGED <<ledger, disk, active_tab, show_suggestions, last_save>>

TxEdit(key) ==
    /\ form.kind = "Transaction"
    /\ Handled(key, "none")
    /\ \/ IsNextKey(key, form) /\ form' = TxForm_next(form)
       \/ IsPrevKey(key) /\ form' = TxForm_prev(form)
       \/ key.code = "Backspace" /\ form' = TxForm_backspace(form)
       \/ key.code = "Char" /\ form' = TxForm_push_char(form, key.ch)
       \/ key.code = "Other" /\ form' = form
    /\ status' = "running"
    /\ UNCHANGED <<ledger, disk, active_tab, show_suggestions, last_message, last_save>>

\* variant: a failed save takes the new transaction back
TxSubmitOk_rollback(key) ==
    /\ form.kind = "Transaction" /\ IsSubmitKey(key, form)
    /\ \E tx \in {TxForm_try_submit(form, now)} :
         /\ tx.ok
         /\ \E outcome \in SaveOutcomes :
            \E l \in {add_transaction(ledger, tx.description, tx.amount,
                                      tx.category, tx.date)} :
            \E sv \in {App_save(l, disk, last_save, "Transaction added", outcome)} :
              /\ Handled(key, outcome)
              /\ ledger' = IF sv.ok THEN l ELSE ledger
              /\ form' = NoForm
              /\ disk' = sv.disk
              /\ last_save' = sv.last_save
              /\ last_message' = sv.last_message
    /\ status' = "running"
    /\ UNCHANGED <<active_tab, show_suggestions>>

TxSubmitOk(key) ==
    /\ form.kind = "Transaction" /\ IsSubmitKey(key, form)
    /\ \E tx \in {TxForm_try_submit(form, now)} :
         /\ tx.ok
         /\ \E outcome \in SaveOutcomes :
            \E l \in {add_transaction(ledger, tx.description, tx.amount,
                                      tx.category, tx.date)} :
            \E sv \in {App_save(l, disk, last_save, "Transaction added", outcome)} :
              /\ Handled(key, outcome)
              /\ ledger' = l
              /\ form' = NoForm
              /\ disk' = sv.disk
              /\ last_save' = sv.last_save
              /\ last_message' = sv.last_message
    /\ status' = "running"
    /\ UNCHANGED <<active_tab, show_suggestions>>

\* variant: a refused submission closes the form
TxSubmitErr_closes(key) ==
    /\ form.kind = "Transaction" /\ IsSubmitKey(key, form)
    /\ \E tx \in {TxForm_try_submit(form, now)} :
         /\ ~tx.ok
         /\ last_message' = tx.err
    /\ Handled(key, "none")
    /\ status' = "running"
    /\ form' = NoForm
    /\ UNCHANGED <<ledger, disk, active_tab, show_suggestions, last_save>>

TxSubmitErr(key) ==
    /\ form.kind = "Transaction" /\ IsSubmitKey(key, form)
    /\ \E tx \in {TxForm_try_submit(form, now)} :
         /\ ~tx.ok
         /\ last_message' = tx.err
    /\ Handled(key, "none")
    /\ status' = "running"
    /\ UNCHANGED <<ledger, disk, form, active_tab, show_suggestions, last_save>>

(* ActiveForm::Budget *)

\* variant: Esc leaves the budget form open
BudgetEsc_keeps(key) ==
    /\ form.kind = "Budget" /\ key.code = "Esc"
    /\ Handled(key, "none")
    /\ last_message' = "Cancelled budget edit"
    /\ status' = "running"
    /\ UNCHANGED <<ledger, disk, form, active_tab, show_suggestions, last_save>>

BudgetEsc(key) ==
    /\ form.kind = "Budget" /\ key.code = "Esc"
    /\ Handled(key, "none")
    /\ form' = NoForm
    /\ last_message' = "Cancelled budget edit"
    /\ status' = "running"
    /\ UNCHANGED <<ledger, disk, active_tab, show_suggestions, last_save>>

BudgetEdit(key) ==
    /\ form.kind = "Budget"
    /\ Handled(key, "none")
    /\ \/ IsNextKey(key, form) /\ form' = BudgetForm_next(form)
       \/ IsPrevKey(key) /\ form' = BudgetForm_prev(form)
       \/ key.code = "Backspace" /\ form' = BudgetForm_backspace(form)
       \/ key.code = "Char" /\ form' = BudgetForm_push_char(form, key.ch)
       \/ key.code = "Other" /\ form' = form
    /\ status' = "running"
    /\ UNCHANGED <<ledger, disk, active_tab, show_suggestions, last_message, last_save>>

BudgetSubmitOk(key) ==
    /\ form.kind = "Budget" /\ IsSubmitKey(key, form)
    /\ \E budget \in {BudgetForm_try_submit(form)} :
         /\ budget.ok
         /\ \E outcome \in SaveOutcomes :
            \E l \in {add_or_update_budget(ledger, budget.category,
                                           budget.monthly_limit)} :
            \E sv \in {App_save(l, disk, last_save, "Budget saved", outcome)} :
              /\ Handled(key, outcome)
              /\ ledger' = l
              /\ form' = NoForm
              /\ disk' = sv.disk
              /\ last_save' = sv.last_save
              /\ last_message' = sv.last_message
    /\ status' = "running"
    /\ UNCHANGED <<active_tab, show_suggestions>>

BudgetSubmitErr(key) ==
    /\ form.kind = "Budget" /\ IsSubmitKey(key, form)
    /\ \E budget \in {BudgetForm_try_submit(form)} :
         /\ ~budget.ok
         /\ last_message' = budget.err
    /\ Handled(key, "none")
    /\ status' = "running"
    /\ UNCHANGED <<ledger, disk, form, active_tab, show_suggestions, last_save>>

(* ActiveForm::None; the arms are tried in the order of the source *)

\* variant: 'q' and Ctrl-c quit while a form is open too
IdleQuit_any_state(key) ==
    /\ key.code = "Char"
    /\ key.ch = "q" \/ (key.ch = "c" /\ key.ctrl)
    /\ Handled(key, "none")
    /\ status' = "quit"
    /\ UNCHANGED <<ledger, disk, form, active_tab, show_suggestions, last_message,
                   last_save>>

IdleQuit(key) ==
    /\ form.kind = "None"
    /\ key.code = "Char"
    /\ key.ch = "q" \/ (key.ch = "c" /\ key.ctrl)
    /\ Handled(key, "none")
    /\ status' = "quit"
    /\ UNCHANGED <<ledger, disk, form, active_tab, show_suggestions, last_message,
                   last_save>>

IdleTab(key) ==
    /\ form.kind = "None"
    /\ key.code = "Char" /\ key.ch \in {"h", "l"}
    /\ Handled(key, "none")
    /\ active_tab' = IF key.ch = "h"
                     THEN (IF active_tab > 0 THEN active_tab - 1 ELSE active_tab)
                     ELSE (IF active_tab < 2 THEN active_tab + 1 ELSE active_tab)
    /\ status' = "running"
    /\ UNCHANGED <<ledger, disk, form, show_suggestions, last_message, last_save>>

IdleOpen(key) ==
    /\ form.kind = "None"
    /\ key.code = "Char" /\ key.ch \in {"a", "b"}
    /\ Handled(key, "none")
    /\ form' = IF key.ch = "a" THEN TxForm_new(now) ELSE BudgetForm_new
    /\ status' = "running"
    /\ UNCHANGED <<ledger, disk, active_tab, show_suggestions, last_message, last_save>>

IdleSave(key) ==
    /\ form.kind = "None"
    /\ key.code = "Char" /\ key.ch = "s"
    /\ \E outcome \in SaveOutcomes :
       \E sv \in {App_save(ledger, disk, last_save, last_message, outcome)} :
         /\ Handled(key, outcome)
         /\ disk' = sv.disk
         /\ last_save' = sv.last_save
         /\ last_message' = sv.last_message
         /\ status' = IF sv.ok THEN "running" ELSE "error"
    /\ UNCHANGED <<ledger, form, active_tab, show_suggestions>>

IdleToggle(key) ==
    /\ form.kind = "None"
    /\ key.code = "Char" /\ key.ch = "g"
    /\ Handled(key, "none")
    /\ show_suggestions' = ~show_suggestions
    /\ status' = "running"
    /\ UNCHANGED <<ledger, disk, form, active_tab, last_message, last_save>>

\* variant: 'r' reports a reload and keeps the ledger of the session
IdleReload_keeps(key) ==
    /\ form.kind = "None"
    /\ key.code = "Char" /\ key.ch = "r"
    /\ \E io \in BOOLEAN :
       \E ld \in {Storage_load(disk, now, io)} :
         /\ Handled(key, IF ld.ok THEN "ok" ELSE "fail")
         /\ ledger' = ledger
         /\ last_message' = IF ld.ok THEN "Reloaded data" ELSE last_message
         /\ status' = IF ld.ok THEN "running" ELSE "error"
    /\ UNCHANGED <<disk, form, active_tab, show_suggestions, last_save>>

IdleReload(key) ==
    /\ form.kind = "None"
    /\ key.code = "Char" /\ key.ch = "r"
    /\ \E io \in BOOLEAN :
       \E ld \in {Storage_load(disk, now, io)} :
         /\ Handled(key, IF ld.ok THEN "ok" ELSE "fail")
         /\ ledger' = IF ld.ok THEN ld.ledger ELSE ledger
         /\ last_message' = IF ld.ok THEN "Reloaded data" ELSE last_message
         /\ status' = IF ld.ok THEN "running" ELSE "error"
    /\ UNCHANGED <<disk, form, active_tab, show_suggestions, last_save>>

IdleIgnore(key) ==
    /\ form.kind = "None"
    /\ ~(key.code = "Char" /\ key.ch \in {"q", "h", "l", "a", "b", "s", "g", "r"})
    /\ ~(key.code = "Char" /\ key.ch = "c" /\ key.ctrl)
    /\ Handled(key, "none")
    /\ status' = "running"
    /\ UNCHANGED <<ledger, disk, form, active_tab, show_suggestions, last_message,
                   last_save>>

handle_key(key) ==
    \/ TxEsc(key) \/ TxEdit(key) \/ TxSubmitOk(key) \/ TxSubmitErr(key)
    \/ BudgetEsc(key) \/ BudgetEdit(key) \/ BudgetSubmitOk(key) \/ BudgetSubmitErr(key)
    \/ IdleQuit(key) \/ IdleTab(key) \/ IdleOpen(key) \/ IdleSave(key)
    \/ IdleToggle(key) \/ IdleReload(key) \/ IdleIgnore(key)

----------------------------------------------------------------------------
(* The session: App::new, then run_app feeding key events to handle_key *)

MaxKeys == 4

Today == Date(2026, 3, 15)

PlainKeys ==
    {Key(code, "", FALSE) :
        code \in {"Esc", "Tab", "BackTab", "Enter", "Backspace", "Left", "Right", "Other"}}

CharKeys(chars) == {Key("Char", c, FALSE) : c \in chars}

CtrlC == Key("Char", "c", TRUE)

NavChars == {"q", "h", "l", "a", "b", "s", "g", "r"}

Keys == PlainKeys \cup CharKeys(NavChars \cup {"1"}) \cup {CtrlC}

\* a ledger file left by an earlier session
OldLedger ==
    add_or_update_budget(
        add_transaction(EmptyLedger, <<"x">>, 500, Str_Food, Date(2026, 3, 1)),
        Str_Food, 1000)

DiskInits == {FileAbsent, FileCorrupt, FileOf(OldLedger)}

\* nothing drawn yet
NoView ==
    [shown |-> "none",
     overview |-> [total_income |-> 0, total_outgoing |-> 0, net |-> 0],
     cat_spend |-> <<>>,
     cashflow |-> <<>>,
     suggestions |-> <<>>]

\* what App::new sets besides the ledger
AppFields ==
    /\ active_tab = 0
    /\ show_suggestions = TRUE
    /\ last_message = "Loaded data"
    /\ last_save = "None"
    /\ view = NoView
    /\ ev = Event("init", NoKey, NoForm, "none", <<>>)
    /\ nkeys = 0

\* a transaction form part-way through a session: 'a', a description, an
\* amount, and a stray character typed after the prefilled date
TypedTxForm(today) ==
    [kind |-> "Transaction",
     fields |-> << <<"x">>, <<"-", "2", "0">>, Str_General,
                   DateToString(today) \o <<"x">> >>,
     index |-> 3]

\* the state App::new leaves (or the failed start), and the same session once
\* the user has typed a transaction form
Init ==
    /\ now = Today
    /\ disk \in DiskInits
    /\ \E ld \in {Storage_load(disk, now, TRUE)} :
         /\ ledger = ld.ledger
         /\ status = IF ld.ok THEN "running" ELSE "error"
    /\ form \in IF status = "running" THEN {NoForm, TypedTxForm(now)} ELSE {NoForm}
    /\ AppFields

\* one turn of run_app's loop in which a key event arrives
Next ==
    \/ nkeys < MaxKeys /\ \E key \in Keys : TxEsc(key)
    \/ nkeys < MaxKeys /\ \E key \in Keys : TxEdit(key)
    \/ nkeys < MaxKeys /\ \E key \in Keys : TxSubmitOk(key)
    \/ nkeys < MaxKeys /\ \E key \in Keys : TxSubmitErr(key)
    \/ nkeys < MaxKeys /\ \E key \in Keys : BudgetEsc(key)
    \/ nkeys < MaxKeys /\ \E key \in Keys : BudgetEdit(key)
    \/ nkeys < MaxKeys /\ \E key \in Keys : BudgetSubmitOk(key)
    \/ nkeys < MaxKeys /\ \E key \in Keys : BudgetSubmitErr(key)
    \/ nkeys < MaxKeys /\ \E key \in Keys : IdleQuit(key)
    \/ nkeys < MaxKeys /\ \E key \in Keys : IdleTab(key)
    \/ nkeys < MaxKeys /\ \E key \in Keys : IdleOpen(key)
    \/ nkeys < MaxKeys /\ \E key \in Keys : IdleSave(key)
    \/ nkeys < MaxKeys /\ \E key \in Keys : IdleToggle(key)
    \/ nkeys < MaxKeys /\ \E key \in Keys : IdleReload(key)
    \/ nkeys < MaxKeys /\ \E key \in Keys : IdleIgnore(key)

Spec == Init /\ [][Next]_vars

----------------------------------------------------------------------------
(* One key event on a form in any state a user can have typed it into *)

MaxFormKeys == 1

DescTexts == { <<>>, <<" ">>, <<"x">>, <<" ", "x", " ">> }

AmountTexts ==
    { <<>>, <<" ">>, <<"-", "2", "0">>, <<"1", "2", ".", "5", "x">>, <<" ", "5", " ">> }

CategoryTexts == { <<>>, <<" ">>, Str_General, <<" ", "F", "u", "n">> }

DateTexts(today) ==
    { <<>>, <<" ">>, DateToString(today),
      <<"2", "0", "2", "5", "-", "0", "2", "-", "3", "0">>,
      <<"2", "0", "2", "5", "-", "3", "-", "7">>,
      <<"2", "0", "2", "6", "-", "0", "3", "-", "1", "5", "x">> }

LimitTexts == { <<>>, <<" ">>, <<"-", "5">>, <<"1", "x">>, <<" ", "7", " ">>, <<"0">> }

\* every text of every field with the focus on the last field, where Enter
\* submits; with the focus elsewhere the date is the one TxForm::new wrote
TxFormInits(today) ==
    { [kind |-> "Transaction", fields |-> <<de, am, ca, da>>, index |-> 3] :
        de \in DescTexts, am \in AmountTexts, ca \in CategoryTexts,
        da \in DateTexts(today) }
    \cup
    { [kind |-> "Transaction", fields |-> <<de, am, ca, DateToString(today)>>,
       index |-> i] :
        de \in DescTexts, am \in AmountTexts, ca \in CategoryTexts, i \in 0..2 }

BudgetFormInits ==
    { [kind |-> "Budget", fields |-> <<ca, li>>, index |-> i] :
        ca \in CategoryTexts \cup {Str_Food}, li \in LimitTexts, i \in 0..1 }

FormKeys == PlainKeys \cup CharKeys(NavChars \cup {"1", " "}) \cup {CtrlC}

InitForm ==
    /\ now = Today
    /\ disk = FileAbsent
    /\ ledger = with_sample_data(now)
    /\ status = "running"
    /\ form \in TxFormInits(now) \cup BudgetFormInits \cup {NoForm}
    /\ AppFields

NextForm ==
    \/ nkeys < MaxFormKeys /\ \E key \in FormKeys : TxEsc(key)
    \/ nkeys < MaxFormKeys /\ \E key \in FormKeys : TxEdit(key)
    \/ nkeys < MaxFormKeys /\ \E key \in FormKeys : TxSubmitOk(key)
    \/ nkeys < MaxFormKeys /\ \E key \in FormKeys : TxSubmitErr(key)
    \/ nkeys < MaxFormKeys /\ \E key \in FormKeys : BudgetEsc(key)
    \/ nkeys < MaxFormKeys /\ \E key \in FormKeys : BudgetEdit(key)
    \/ nkeys < MaxFormKeys /\ \E key \in FormKeys : BudgetSubmitOk(key)
    \/ nkeys < MaxFormKeys /\ \E key \in FormKeys : BudgetSubmitErr(key)
    \/ nkeys < MaxFormKeys /\ \E key \in FormKeys : IdleQuit(key)
    \/ nkeys < MaxFormKeys /\ \E key \in FormKeys : IdleTab(key)
    \/ nkeys < MaxFormKeys /\ \E key \in FormKeys : IdleOpen(key)
    \/ nkeys < MaxFormKeys /\ \E key \in FormKeys : IdleSave(key)
    \/ nkeys < MaxFormKeys /\ \E key \in FormKeys : IdleToggle(key)
    \/ nkeys < MaxFormKeys /\ \E key \in FormKeys : IdleReload(key)
    \/ nkeys < MaxFormKeys /\ \E key \in FormKeys : IdleIgnore(key)

SpecForm == InitForm /\ [][NextForm]_vars

----------------------------------------------------------------------------
(* The Ledger on its own: any sequence of calls of its two mutators *)

MaxCalls == 3

\* the arguments of a call
Call(op, args) == Event(op, NoKey, NoForm, "none", args)

LedgerFrame ==
    UNCHANGED <<disk, form, active_tab, show_suggestions, last_message, last_save,
                status, now, view>>

LedgerDates(today) ==
    { today, DateMinusDays(today, 31), Date(today.y + 1, 1, 1) }

LedgerRows(today) ==
    { <<de, am, ca, da>> :
        de \in {<<"x">>}, am \in {0, 500}, ca \in {Str_Food, Str_food},
        da \in LedgerDates(today) }

LedgerAddTransaction(rows) ==
    \E row \in rows :
        /\ ledger' = add_transaction(ledger, row[1], row[2], row[3], row[4])
        /\ ev' = Call("add_transaction", row)
        /\ nkeys' = nkeys + 1
        /\ LedgerFrame

LedgerAddOrUpdateBudget ==
    \E category \in {Str_Food, Str_food, Str_Fun}, monthly_limit \in {0, 70000} :
        /\ ledger' = add_or_update_budget(ledger, category, monthly_limit)
        /\ ev' = Call("add_or_update_budget", <<category, monthly_limit>>)
        /\ nkeys' = nkeys + 1
        /\ LedgerFrame

InitLedger ==
    /\ now = Today
    /\ disk = FileAbsent
    /\ ledger \in {EmptyLedger, with_sample_data(now)}
    /\ status = "running"
    /\ form = NoForm
    /\ AppFields

NextLedger ==
    \/ nkeys < MaxCalls /\ LedgerAddTransaction(LedgerRows(now))
    \/ nkeys < MaxCalls /\ LedgerAddOrUpdateBudget

SpecLedger == InitLedger /\ [][NextLedger]_vars

----------------------------------------------------------------------------
(* The derivations, applied to ledgers built by add_transaction *)

MaxDeriveTx == 3

DeriveNows == { Date(2026, 3, 15), Date(2024, 12, 31) }

DeriveDates(today) ==
    { today, Date(today.y - 1, today.m, today.d), DateMinusDays(today, 31) }

DeriveRows(today) ==
    { <<de, am, ca, da>> :
        de \in {<<"x">>}, am \in {0 - 10000, 0, 5000}, ca \in {Str_Food},
        da \in DeriveDates(today) }

\* render_overview's first query
render_overview ==
    /\ view' = [NoView EXCEPT !.shown = "overview",
                              !.overview = current_month_overview(ledger, now)]
    /\ ev' = Call("render_overview", <<>>)
    /\ UNCHANGED <<ledger, disk, form, active_tab, show_suggestions, last_message,
                   last_save, status, now, nkeys>>

\* an empty ledger, the sample, and one whose only row is a year old
DeriveLedgers(today) ==
    { EmptyLedger, with_sample_data(today),
      add_transaction(EmptyLedger, <<"x">>, 5000, Str_Food,
                      Date(today.y - 1, today.m, today.d)) }

InitDerive ==
    /\ now \in DeriveNows
    /\ disk = FileAbsent
    /\ ledger \in DeriveLedgers(now)
    /\ status = "running"
    /\ form = NoForm
    /\ AppFields

NextDerive ==
    \/ nkeys < MaxDeriveTx /\ LedgerAddTransaction(DeriveRows(now))
    \/ render_overview

SpecDerive == InitDerive /\ [][NextDerive]_vars

----------------------------------------------------------------------------
(* The other derivations, applied to ledgers of chosen rows *)

MaxQueryTx == 3

\* spending of two categories that tie, a larger sum, an income and a zero
\* row; rows 31, 91 and 400 days old and one 40 days ahead; and rows on both
\* sides of the year 10000
QueryRows(today) ==
    << <<<<"x">>, 5000, Str_Food, today>>,
       <<<<"x">>, 5000, Str_Fun, today>>,
       <<<<"x">>, 30000, Str_Food, today>>,
       <<<<"x">>, 0 - 10000, Str_Food, today>>,
       <<<<"x">>, 0, Str_Fun, today>>,
       <<<<"x">>, 5000, Str_Food, DateMinusDays(today, 31)>>,
       <<<<"x">>, 5000, Str_Food, DateMinusDays(today, 91)>>,
       <<<<"x">>, 5000, Str_Food, DateMinusDays(today, 400)>>,
       <<<<"x">>, 5000, Str_Fun, DateMinusDays(today, 0 - 40)>>,
       <<<<"x">>, 5000, Str_Food, Date(9999, 12, 1)>>,
       <<<<"x">>, 5000, Str_Food, Date(10000, 1, 1)>>,
       <<<<"x">>, 20000, Str_Work, today>> >>

\* the rows numbered in S, in the order of QueryRows
RECURSIVE RowsIn(_, _, _)
RowsIn(rows, S, i) ==
    IF i > Len(rows) THEN <<>>
    ELSE (IF i \in S THEN <<rows[i]>> ELSE <<>>) \o RowsIn(rows, S, i + 1)

\* the sample ledger, and every ledger add_transaction builds from at most
\* MaxQueryTx of the rows
QueryLedgers(today) ==
    { AddRows(EmptyLedger, RowsIn(QueryRows(today), S, 1)) :
        S \in {T \in SUBSET (1..Len(QueryRows(today))) : Cardinality(T) <= MaxQueryTx} }
    \cup {with_sample_data(today)}

QueryMonths == {0, 1, 6}

QueryFrame ==
    UNCHANGED <<ledger, disk, form, active_tab, show_suggestions, last_message,
                last_save, status, now, nkeys>>

\* render_overview's second query
Query_category_spending ==
    /\ \E order \in HashOrders(CategorySpendingSize(ledger, now)) :
         view' = [NoView EXCEPT !.shown = "category_spending",
                                !.cat_spend =
                                    category_spending_current_month(ledger, now, order)]
    /\ ev' = Call("category_spending_current_month", <<>>)
    /\ QueryFrame

\* render_overview's last query, with any number of months
Query_spending_last_n_months ==
    /\ \E months \in QueryMonths :
         /\ view' = [NoView EXCEPT !.shown = "spending",
                                   !.cashflow = spending_last_n_months(ledger, now, months)]
         /\ ev' = Call("spending_last_n_months", <<months>>)
    /\ QueryFrame

\* render_budgets' query
Query_suggested_budgets ==
    /\ \E order \in HashOrders(SuggestedSize(ledger, now)) :
         view' = [NoView EXCEPT !.shown = "suggestions",
                                !.suggestions = suggested_budgets(ledger, now, order)]
    /\ ev' = Call("suggested_budgets", <<>>)
    /\ QueryFrame

InitQuery ==
    /\ now \in DeriveNows
    /\ disk = FileAbsent
    /\ ledger \in QueryLedgers(now)
    /\ status = "running"
    /\ form = NoForm
    /\ AppFields

NextQuery ==
    \/ Query_category_spending
    \/ Query_spending_last_n_months
    \/ Query_suggested_budgets

SpecQuery == InitQuery /\ [][NextQuery]_vars

----------------------------------------------------------------------------
(* The derivations of one month side by side, on f64 amounts *)

MaxF64Tx == 3

\* 2^53 + 4, a whole number f64 holds, next to which 1 is half the distance to
\* the neighbouring value
F64Big == F64(FALSE, F64Base \div 2, 4)

F64One == F64(FALSE, 0, 1)

\* a large expense, small expenses and incomes and a zero row today; rows on
\* the first and the 28th of the month; rows 31 days old
F64Rows(today) ==
    << <<<<"x">>, F64Big, Str_Food, today>>,
       <<<<"x">>, F64One, Str_Fun, today>>,
       <<<<"x">>, F64One, Str_Fun, today>>,
       <<<<"x">>, F64Neg(F64One), Str_Food, today>>,
       <<<<"x">>, F64Neg(F64One), Str_Fun, today>>,
       <<<<"x">>, F64Zero, Str_Food, today>>,
       <<<<"x">>, F64One, Str_Food, WithDay(today, 1)>>,
       <<<<"x">>, F64Neg(F64One), Str_Food, WithDay(today, 28)>>,
       <<<<"x">>, F64One, Str_Food, DateMinusDays(today, 31)>>,
       <<<<"x">>, F64Neg(F64One), Str_Work, DateMinusDays(today, 31)>> >>

\* every ledger add_transaction builds from at most MaxF64Tx of the rows
F64Ledgers(today) ==
    { AddRows(EmptyLedger, RowsIn(F64Rows(today), S, 1)) :
        S \in {T \in SUBSET (1..Len(F64Rows(today))) : Cardinality(T) <= MaxF64Tx} }

F64Months == {1, 6}

NoViewF64 ==
    [NoView EXCEPT !.overview = [total_income |-> F64Zero,
                                 total_outgoing |-> F64Zero, net |-> F64Zero]]

\* the three queries of render_overview on one ledger, with any number of months
Query_month_f64 ==
    /\ \E order \in HashOrders(CategorySpendingSizeF64(ledger, now)) :
       \E months \in F64Months :
         /\ view' = [NoViewF64 EXCEPT
                        !.shown = "month",
                        !.overview = current_month_overview_f64(ledger, now),
                        !.cat_spend =
                            category_spending_current_month_f64(ledger, now, order),
                        !.cashflow = spending_last_n_months_f64(ledger, now, months)]
         /\ ev' = Call("month", <<months>>)
    /\ QueryFrame

InitF64 ==
    /\ now \in DeriveNows
    /\ disk = FileAbsent
    /\ ledger \in F64Ledgers(now)
    /\ status = "running"
    /\ form = NoForm
    /\ active_tab = 0
    /\ show_suggestions = TRUE
    /\ last_message = "Loaded data"
    /\ last_save = "None"
    /\ view = NoViewF64
    /\ ev = Event("init", NoKey, NoForm, "none", <<>>)
    /\ nkeys = 0

NextF64 == Query_month_f64

SpecF64 == InitF64 /\ [][NextF64]_vars

----------------------------------------------------------------------------
(* Properties of the Ledger (SpecLedger) *)

\* date a is not earlier than date b, compared as (year, month, day)
NotEarlier(a, b) ==
    \/ a.y > b.y
    \/ a.y = b.y /\ a.m > b.m
    \/ a.y = b.y /\ a.m = b.m /\ a.d >= b.d

DateDescending(txs) ==
    \A i \in 1..(Len(txs) - 1) : NotEarlier(txs[i].date, txs[i + 1].date)

TxIds(l) == {l.transactions[i].id : i \in 1..Len(l.transactions)}

\* C1: after every add_transaction call on a ledger whose transactions are
\* sorted, whatever the amount and date of the new row, the transactions are
\* in non-increasing date order.
C1_SortedAfterAdd ==
    ev.op = "add_transaction" => DateDescending(ledger.transactions)

\* C1 happens: the row just added carries a date another row already has and a
\* later row follows it, so the sort moved it forward from the end
C1_Witness ==
    /\ ev.op = "add_transaction"
    /\ \E i, j, k \in 1..Len(ledger.transactions) :
         /\ ledger.transactions[i].id = ledger.next_tx_id - 1
         /\ j # i
         /\ ledger.transactions[j].date = ledger.transactions[i].date
         /\ i < k
         /\ ledger.transactions[k].date # ledger.transactions[i].date

\* C2: in every state reached from the sample or the empty ledger by
\* add_or_update_budget and add_transaction calls, no two budgets have the
\* same category.
C2_UniqueCategories ==
    \A i, j \in 1..Len(ledger.budgets) :
        i # j => ledger.budgets[i].category # ledger.budgets[j].category

\* C2 happens: a category of the sample ledger was upserted again, after other
\* calls, and is still there once with the new limit
C2_Witness ==
    /\ ev.op = "add_or_update_budget"
    /\ ev.args = <<Str_Food, 70000>>
    /\ nkeys = MaxCalls
    /\ Len(ledger.transactions) > 13
    /\ \E i \in 1..Len(ledger.budgets) :
         ledger.budgets[i] = Budget(2, Str_Food, 70000)
    /\ \E i \in 1..Len(ledger.budgets) : ledger.budgets[i].category = Str_food

\* C3: add_or_update_budget on a category some budget has exactly overwrites
\* that budget's monthly_limit and nothing else (ids, positions, number of
\* budgets, other budgets, next_budget_id); on a category no budget has exactly
\* it appends one budget whose id is the old next_budget_id and adds 1 to
\* next_budget_id.
C3_UpsertStep ==
    ev'.op = "add_or_update_budget" =>
        LET category == ev'.args[1]
            monthly_limit == ev'.args[2]
            old == ledger.budgets
            new == ledger'.budgets
        IN  IF \E i \in 1..Len(old) : old[i].category = category
            THEN /\ Len(new) = Len(old)
                 /\ \A i \in 1..Len(old) :
                      IF old[i].category = category
                      THEN new[i] = Budget(old[i].id, category, monthly_limit)
                      ELSE new[i] = old[i]
                 /\ ledger'.next_budget_id = ledger.next_budget_id
            ELSE /\ new = Append(old, Budget(ledger.next_budget_id, category,
                                             monthly_limit))
                 /\ ledger'.next_budget_id = ledger.next_budget_id + 1

C3_Upsert == [][C3_UpsertStep]_vars

\* C3 happens: "food" was upserted into the sample ledger, which has "Food",
\* and then upserted again
C3_Witness ==
    /\ ev.op = "add_or_update_budget"
    /\ ev.args = <<Str_food, 0>>
    /\ ledger.next_budget_id = 5
    /\ Len(ledger.budgets) = 4
    /\ ledger.budgets[2] = Budget(2, Str_Food, 60000)
    /\ ledger.budgets[4] = Budget(4, Str_food, 0)
    /\ nkeys >= 2

\* C4: from a ledger whose next_tx_id exceeds every transaction id, every
\* add_transaction call gives the new row the old next_tx_id and adds 1 to
\* next_tx_id, so that ids stay pairwise distinct and below next_tx_id.
C4_AddStep ==
    ev'.op = "add_transaction" =>
        /\ ledger'.next_tx_id = ledger.next_tx_id + 1
        /\ Len(ledger'.transactions) = Len(ledger.transactions) + 1
        /\ TxIds(ledger') = TxIds(ledger) \cup {ledger.next_tx_id}
        /\ \E i \in 1..Len(ledger'.transactions) :
             ledger'.transactions[i] =
                Transaction(ledger.next_tx_id, ev'.args[1], ev'.args[2],
                            ev'.args[3], ev'.args[4])
        /\ \A id \in TxIds(ledger) : id < ledger.next_tx_id

C4_IdsDistinct ==
    /\ Cardinality(TxIds(ledger)) = Len(ledger.transactions)
    /\ \A id \in TxIds(ledger) : id < ledger.next_tx_id

C4_TxIds == [][C4_AddStep]_vars /\ []C4_IdsDistinct

\* C4 happens: three rows were added to the sample ledger and took the ids
\* 14, 15 and 16
C4_Witness ==
    /\ ev.op = "add_transaction"
    /\ ledger.next_tx_id = 17
    /\ {14, 15, 16} \subseteq TxIds(ledger)
    /\ Len(ledger.transactions) = 16

----------------------------------------------------------------------------
(* What the texts of a form mean, said without the parsers *)

Blank(s) == \A i \in 1..Len(s) : s[i] = " "

\* s without the spaces at its two ends
Core(s) ==
    IF Blank(s) THEN <<>>
    ELSE LET a == CHOOSE i \in 1..Len(s) :
                    s[i] # " " /\ \A j \in 1..(i - 1) : s[j] = " "
             b == CHOOSE i \in 1..Len(s) :
                    s[i] # " " /\ \A j \in (i + 1)..Len(s) : s[j] = " "
         IN  SubSeq(s, a, b)

AllDigits(s) == \A i \in 1..Len(s) : s[i] \in {DigitChars[k] : k \in 1..10}

\* a decimal number: an optional sign, digits with at most one '.', and at
\* least one digit
NumberText(s) ==
    LET t == IF s # <<>> /\ s[1] \in {"+", "-"} THEN Tail(s) ELSE s
    IN  /\ \A i \in 1..Len(t) : AllDigits(<<t[i]>>) \/ t[i] = "."
        /\ Cardinality({i \in 1..Len(t) : t[i] = "."}) <= 1
        /\ \E i \in 1..Len(t) : AllDigits(<<t[i]>>)

MonthLength(y, m) ==
    CASE m \in {1, 3, 5, 7, 8, 10, 12} -> 31
      [] m \in {4, 6, 9, 11} -> 30
      [] OTHER -> IF y % 400 = 0 \/ (y % 4 = 0 /\ y % 100 # 0) THEN 29 ELSE 28

\* a year, a month and a day of the calendar written year-month-day; the
\* month and the day have one or two digits, the year up to four (or a sign
\* and any number of digits), and spaces may precede the month and the day
CalendarDateText(s) ==
    \E i, j \in 1..Len(s) :
        /\ i < j /\ s[i] = "-" /\ s[j] = "-"
        /\ LET yt == SubSeq(s, 1, i - 1)
               mt == Core(SubSeq(s, i + 1, j - 1))
               dt == Core(SubSeq(s, j + 1, Len(s)))
               yd == IF yt # <<>> /\ yt[1] \in {"+", "-"} THEN Tail(yt) ELSE yt
           IN  /\ yd # <<>> /\ AllDigits(yd) /\ (yd = yt => Len(yd) <= 4)
               /\ Len(mt) \in 1..2 /\ AllDigits(mt)
               /\ SubSeq(s, i + 1, j - 1) # <<>> /\ s[j - 1] # " "
               /\ Len(dt) \in 1..2 /\ AllDigits(dt)
               /\ s[Len(s)] # " "
               /\ DigitsVal(mt) \in 1..12
               /\ DigitsVal(dt) \in 1..MonthLength(
                     IF yd = yt \/ yt[1] = "+" THEN DigitsVal(yd) ELSE 0 - DigitsVal(yd),
                     DigitsVal(mt))

\* the step hands the form to try_submit: Enter on the last field
Submitting(kind) ==
    /\ form.kind = kind
    /\ form.index + 1 = Len(form.fields)
    /\ ev'.op = "key" /\ ev'.key.code = "Enter"

\* the same, of the step that led to the current state
Submitted(kind) ==
    /\ ev.op = "key" /\ ev.key.code = "Enter"
    /\ ev.form.kind = kind
    /\ ev.form.index + 1 = Len(ev.form.fields)

\* the step refuses the form: it stays as it is and the ledger too
Refused == form' = form /\ ledger' = ledger /\ disk' = disk

\* the step adds exactly this transaction and closes the form
AddedTx(description, amount, category, date) ==
    /\ form' = NoForm
    /\ Len(ledger'.transactions) = Len(ledger.transactions) + 1
    /\ \E i \in 1..Len(ledger'.transactions) :
         ledger'.transactions[i] =
            Transaction(ledger.next_tx_id, description, amount, category, date)

----------------------------------------------------------------------------
(* Properties of the forms *)

\* C5: Esc on an active transaction or budget form, whatever field has the
\* focus and whatever text the fields hold, leaves no form active and leaves
\* the ledger (transactions, budgets and both counters) as it was.
C5_EscStep ==
    (form.kind # "None" /\ ev'.op = "key" /\ ev'.key.code = "Esc") =>
        /\ form' = NoForm
        /\ ledger' = ledger

C5_EscCancels == [][C5_EscStep]_vars

\* C5 happens: Esc on a transaction form filled with a valid transaction,
\* focus on the third field
C5_Witness ==
    /\ ev.op = "key" /\ ev.key.code = "Esc"
    /\ ev.form.kind = "Transaction"
    /\ ev.form.index = 2
    /\ ev.form.fields[1] = <<"x">>
    /\ ev.form.fields[2] = <<"-", "2", "0">>
    /\ form = NoForm
    /\ ledger = with_sample_data(now)

\* C6: Enter on the last field of a form whose validation fails leaves the
\* form active with the same focus and the same texts, leaves the ledger as it
\* was, puts the reason in last_message, and the session keeps running; the
\* form can then be corrected and a later Enter succeeds (C6_Witness).
C6_FailStep ==
    /\ (Submitting("Transaction") /\ ~TxForm_try_submit(form, now).ok) =>
          /\ form' = form
          /\ ledger' = ledger
          /\ last_message' = TxForm_try_submit(form, now).err
          /\ status' = "running"
    /\ (Submitting("Budget") /\ ~BudgetForm_try_submit(form).ok) =>
          /\ form' = form
          /\ ledger' = ledger
          /\ last_message' = BudgetForm_try_submit(form).err
          /\ status' = "running"

C6_FailureKeepsForm == [][C6_FailStep]_vars

\* C6 happens: the date was refused, the stray character was deleted, and this
\* Enter added the transaction
C6_Witness ==
    /\ Submitted("Transaction")
    /\ ev.msg = "Date must be YYYY-MM-DD"
    /\ ev.form.fields[4] = DateToString(now)
    /\ form = NoForm
    /\ status = "running"
    /\ \E i \in 1..Len(ledger.transactions) :
         /\ ledger.transactions[i].description = <<"x">>
         /\ ledger.transactions[i].amount = 0 - 2000
         /\ ledger.transactions[i].date = now

\* C7: submitting the transaction form with a description that is blank
\* fails with "Description is required" whatever the amount, category and date
\* fields hold, and adds no transaction.
C7_BlankStep ==
    (Submitting("Transaction") /\ Blank(form.fields[1])) =>
        /\ last_message' = "Description is required"
        /\ Refused

C7_BlankDescription == [][C7_BlankStep]_vars

\* C7 happens: a description of one space, with an amount and a date that
\* would be refused too
C7_Witness ==
    /\ Submitted("Transaction")
    /\ ev.form.fields[1] = <<" ">>
    /\ ev.form.fields[2] = <<"1", "2", ".", "5", "x">>
    /\ ev.form.fields[4] = <<"2", "0", "2", "5", "-", "0", "2", "-", "3", "0">>
    /\ last_message = "Description is required"
    /\ form = ev.form
    /\ ledger = with_sample_data(now)

\* the parts of C8 that hold as stated: with a description, a blank or
\* non-numeric amount is refused, and a numeric amount with a blank category
\* and an empty date adds the transaction under "General", dated today
C8_AmountStep ==
    (Submitting("Transaction") /\ ~Blank(form.fields[1])) =>
        /\ (Blank(form.fields[2]) \/ ~NumberText(Core(form.fields[2]))) =>
              /\ Refused
              /\ last_message' \in {"Amount is required",
                                    "Amount must be a number (use negative for income)"}
        /\ (NumberText(Core(form.fields[2])) /\ Blank(form.fields[3])
              /\ form.fields[4] = <<>>) =>
              /\ AddedTx(Core(form.fields[1]), ParseF64(Core(form.fields[2])).val,
                         Str_General, now)
              /\ Core(form.fields[2]) = <<"-", "2", "0">> =>
                    AddedTx(Core(form.fields[1]), 0 - 2000, Str_General, now)

\* C8 as stated: with a description, a date field that is not empty and does
\* not hold a calendar date is refused.
C8_AsStatedStep ==
    /\ C8_AmountStep
    /\ (Submitting("Transaction") /\ ~Blank(form.fields[1])
          /\ form.fields[4] # <<>> /\ ~CalendarDateText(Core(form.fields[4]))) =>
            Refused

C8_AmendedStep ==
    /\ C8_AmountStep
    /\ (Submitting("Transaction") /\ ~Blank(form.fields[1])
          /\ ~Blank(form.fields[4]) /\ ~CalendarDateText(Core(form.fields[4]))) =>
            /\ Refused
            /\ NumberText(Core(form.fields[2])) =>
                  last_message' = "Date must be YYYY-MM-DD"
    /\ (Submitting("Transaction") /\ ~Blank(form.fields[1])
          /\ NumberText(Core(form.fields[2])) /\ Blank(form.fields[4])) =>
            \E category \in {Core(form.fields[3]), Str_General} :
                AddedTx(Core(form.fields[1]), ParseF64(Core(form.fields[2])).val,
                        category, now)

C9_BudgetStep ==
    Submitting("Budget") =>
        LET category == Core(form.fields[1])
            limit == Core(form.fields[2])
        IN  IF Blank(form.fields[1])
            THEN Refused /\ last_message' = "Category is required"
            ELSE IF ~NumberText(limit)
            THEN Refused /\ last_message' = "Monthly limit must be a number (no $ sign)"
            ELSE /\ form' = NoForm
                 /\ \E i \in 1..Len(ledger'.budgets) :
                      /\ ledger'.budgets[i].category = category
                      /\ ledger'.budgets[i].monthly_limit = ParseF64(limit).val
                      /\ limit = <<"-", "5">> => ledger'.budgets[i].monthly_limit = 0 - 500
                      /\ limit = <<"0">> => ledger'.budgets[i].monthly_limit = 0
                 /\ \A i \in 1..Len(ledger.budgets) :
                      ledger.budgets[i].category # category =>
                          ledger'.budgets[i] = ledger.budgets[i]

C9_BudgetValidation == [][C9_BudgetStep]_vars

\* C9 happens: the budget " Fun" with the limit "-5" was accepted
C9_Witness ==
    /\ Submitted("Budget")
    /\ ev.form.fields = << <<" ", "F", "u", "n">>, <<"-", "5">> >>
    /\ form = NoForm
    /\ ledger.budgets[Len(ledger.budgets)] = Budget(4, Str_Fun, 0 - 500)

----------------------------------------------------------------------------
(* Properties of the derivations (SpecDerive) *)

\* the sum of f over the rows numbered 1..n
RECURSIVE SumTo(_, _)
SumTo(f, n) == IF n = 0 THEN 0 ELSE SumTo(f, n - 1) + f[n]

\* C10: current_month_overview looks at exactly the rows of the current
\* date's year and month; total_income is the sum of -amount over those below
\* zero, total_outgoing the sum of amount over the others (zero among them),
\* and net is their difference.
C10_Overview ==
    ev.op = "render_overview" =>
        LET txs == ledger.transactions
            Current(i) == txs[i].date.y = now.y /\ txs[i].date.m = now.m
            income == SumTo([i \in 1..Len(txs) |->
                               IF Current(i) /\ txs[i].amount < 0
                               THEN 0 - txs[i].amount ELSE 0], Len(txs))
            outgoing == SumTo([i \in 1..Len(txs) |->
                                 IF Current(i) /\ txs[i].amount >= 0
                                 THEN txs[i].amount ELSE 0], Len(txs))
        IN  /\ view.shown = "overview"
            /\ view.overview.total_income = income
            /\ view.overview.total_outgoing = outgoing
            /\ view.overview.net = income - outgoing

\* C10 happens: the amounts -100, 50 and 0 in the current month and a row of
\* the same month a year earlier give income 100, outgoing 50 and net 50
C10_Witness ==
    /\ ev.op = "render_overview"
    /\ Len(ledger.transactions) = 4
    /\ \E i \in 1..4 :
         /\ ledger.transactions[i].date = Date(now.y - 1, now.m, now.d)
         /\ ledger.transactions[i].amount = 5000
         /\ {ledger.transactions[j].amount : j \in (1..4) \ {i}} = {0 - 10000, 5000, 0}
         /\ \A j \in (1..4) \ {i} : ledger.transactions[j].date = now
    /\ view.overview = [total_income |-> 10000, total_outgoing |-> 5000, net |-> 5000]

----------------------------------------------------------------------------
(* Properties of the other derivations (SpecQuery) *)

\* the rows of the ledger that satisfy P, by number
RowsWhere(P(_)) == {i \in 1..Len(ledger.transactions) : P(ledger.transactions[i])}

\* the sum of the amounts of the rows numbered in S
AmountOver(S) ==
    SumTo([i \in 1..Len(ledger.transactions) |->
             IF i \in S THEN ledger.transactions[i].amount ELSE 0],
          Len(ledger.transactions))

InCurrentMonth(tx) == tx.date.y = now.y /\ tx.date.m = now.m

\* C11: category_spending_current_month has exactly one entry for each
\* category with a current-month row of amount > 0, its total is the sum of
\* those amounts, rows of amount <= 0 add nothing and make no entry, and the
\* totals are non-increasing.
C11_CategorySpending ==
    ev.op = "category_spending_current_month" =>
        LET r == view.cat_spend
            Spent(tx) == InCurrentMonth(tx) /\ tx.amount > 0
            cats == {ledger.transactions[i].category : i \in RowsWhere(Spent)}
        IN  /\ Len(r) = Cardinality(cats)
            /\ {r[i].category : i \in 1..Len(r)} = cats
            /\ \A i \in 1..Len(r) :
                 LET Mine(tx) == Spent(tx) /\ tx.category = r[i].category
                 IN  r[i].total = AmountOver(RowsWhere(Mine))
            /\ \A i \in 1..(Len(r) - 1) : r[i].total >= r[i + 1].total

\* C11 happens: Food and Fun both spent 50 this month, Food also has an
\* income row, and the entry inserted second comes out first
C11_Witness ==
    /\ ev.op = "category_spending_current_month"
    /\ Len(ledger.transactions) = 3
    /\ \E i \in 1..3 : /\ ledger.transactions[i].amount < 0
                       /\ ledger.transactions[i].category = Str_Food
                       /\ InCurrentMonth(ledger.transactions[i])
    /\ view.cat_spend = << [category |-> Str_Fun, total |-> 5000],
                           [category |-> Str_Food, total |-> 5000] >>

\* C12: spending_last_n_months(0) is empty for every ledger, and for
\* months >= 1 every bucket is the year and month of some row dated on or after
\* the current date minus months * 31 days: a month without such a row has no
\* bucket.
C12_SparseSeries ==
    ev.op = "spending_last_n_months" =>
        LET months == ev.args[1]
            r == view.cashflow
            cutoff == DateMinusDays(now, months * 31)
        IN  /\ months = 0 => r = <<>>
            /\ months >= 1 =>
                 \A i \in 1..Len(r) :
                    \E j \in 1..Len(ledger.transactions) :
                        /\ NotEarlier(ledger.transactions[j].date, cutoff)
                        /\ r[i].label = MonthLabel(ledger.transactions[j].date.y,
                                                   ledger.transactions[j].date.m)

\* C12 happens: rows of today, 91 days ago and 400 days ago, six months asked
\* for: two buckets with empty months between them and none for the oldest row
C12_Witness ==
    /\ ev.op = "spending_last_n_months"
    /\ ev.args = <<6>>
    /\ {ledger.transactions[i].date : i \in 1..Len(ledger.transactions)}
         = {now, DateMinusDays(now, 91), DateMinusDays(now, 400)}
    /\ Len(view.cashflow) = 2
    /\ view.cashflow[2].label = MonthLabel(now.y, now.m)

\* C13: the buckets of spending_last_n_months are in ascending order of their
\* labels, and that order is the order in time of their years and months.
C13_LabelOrderIsTime ==
    ev.op = "spending_last_n_months" =>
        LET r == view.cashflow
            LabelOf(tx) == MonthLabel(tx.date.y, tx.date.m)
        IN  /\ \A i \in 1..(Len(r) - 1) : StrLess(r[i].label, r[i + 1].label)
            /\ \A i, j \in 1..Len(r) :
                 i < j =>
                    \A a, b \in 1..Len(ledger.transactions) :
                        (/\ LabelOf(ledger.transactions[a]) = r[i].label
                         /\ LabelOf(ledger.transactions[b]) = r[j].label)
                        => \/ ledger.transactions[a].date.y < ledger.transactions[b].date.y
                           \/ /\ ledger.transactions[a].date.y = ledger.transactions[b].date.y
                              /\ ledger.transactions[a].date.m < ledger.transactions[b].date.m

\* a row counts for suggested_budgets: spending dated on or after the current
\* date minus 90 days
Qualifying(tx) == tx.amount > 0 /\ NotEarlier(tx.date, DateMinusDays(now, 90))

\* the same, read as the 90 days that end today
QualifyingUpToToday(tx) == Qualifying(tx) /\ NotEarlier(now, tx.date)

IsFallback(r) ==
    /\ Len(r) = 3
    /\ {r[i].category : i \in 1..3} = {Str_Housing, Str_Food, Str_Savings}
    /\ \A i \in 1..3 : r[i].suggested_limit = 0

NoFallbackIn(r) ==
    \A i \in 1..Len(r) :
        /\ r[i].reason = "Last 90 days average + 10% buffer"
        /\ r[i].suggested_limit > 0

\* C14 as stated: suggested_budgets is the three fallback entries whenever no
\* row of amount > 0 is dated within the last 90 days, and has no fallback
\* entry otherwise.
C14_AsStated ==
    ev.op = "suggested_budgets" =>
        IF RowsWhere(QualifyingUpToToday) = {}
        THEN IsFallback(view.suggestions)
        ELSE NoFallbackIn(view.suggestions)

\* C14: suggested_budgets is the three fallback entries Housing, Food and
\* Savings, each with limit 0, whenever no row of amount > 0 is dated on or
\* after the current date minus 90 days (rows dated after today count), and has
\* no fallback entry otherwise.
C14_Fallback ==
    ev.op = "suggested_budgets" =>
        IF RowsWhere(Qualifying) = {}
        THEN IsFallback(view.suggestions)
        ELSE NoFallbackIn(view.suggestions)

\* C14 happens: a ledger of an income row and two rows older than 90 days
C14_Witness ==
    /\ ev.op = "suggested_budgets"
    /\ Len(ledger.transactions) = 3
    /\ \E i \in 1..3 : /\ ledger.transactions[i].amount < 0
                       /\ ledger.transactions[i].date = now
    /\ \E i \in 1..3 : /\ ledger.transactions[i].amount > 0
                       /\ ledger.transactions[i].date = DateMinusDays(now, 91)
    /\ view.suggestions[1].category = Str_Housing
    /\ view.suggestions[2].category = Str_Food
    /\ view.suggestions[3].category = Str_Savings
    /\ IsFallback(view.suggestions)

\* C15: every category whose spend S over the rows of amount > 0 dated on or
\* after the current date minus 90 days is positive has exactly one suggestion,
\* with the limit max(S / 3, 50) * 1.10 rounded to hundredths (110.00 for
\* S = 300, 55.00 for S <= 150), and the limits are non-increasing.
C15_SuggestedLimits ==
    (ev.op = "suggested_budgets" /\ RowsWhere(Qualifying) # {}) =>
        LET r == view.suggestions
            cats == {ledger.transactions[i].category : i \in RowsWhere(Qualifying)}
        IN  /\ Len(r) = Cardinality(cats)
            /\ {r[i].category : i \in 1..Len(r)} = cats
            /\ \A i \in 1..Len(r) :
                 LET Mine(tx) == Qualifying(tx) /\ tx.category = r[i].category
                     S == AmountOver(RowsWhere(Mine))
                     base3 == IF S > 15000 THEN S ELSE 15000
                     limit == r[i].suggested_limit
                 IN  /\ 30 * limit - 11 * base3 >= 0 - 15
                     /\ 30 * limit - 11 * base3 <= 15
                     /\ S = 30000 => limit = 11000
                     /\ S <= 15000 => limit = 5500
            /\ \A i \in 1..(Len(r) - 1) :
                 r[i].suggested_limit >= r[i + 1].suggested_limit

\* C15 happens: Food spent 300 and Fun 50 within the 90 days
C15_Witness ==
    /\ ev.op = "suggested_budgets"
    /\ Len(view.suggestions) = 2
    /\ view.suggestions[1].category = Str_Food
    /\ view.suggestions[1].suggested_limit = 11000
    /\ view.suggestions[2].category = Str_Fun
    /\ view.suggestions[2].suggested_limit = 5500
    /\ \E i \in 1..Len(ledger.transactions) :
         ledger.transactions[i].amount = 30000 /\ ledger.transactions[i].category = Str_Food

----------------------------------------------------------------------------
(* Properties of the session *)

\* C16: every Budget of the ledger has a monthly_limit that is not below zero,
\* in every state reached from the sample ledger by key events, whatever text
\* the limit field of the budget form holds.
C16_NonNegativeLimits ==
    \A i \in 1..Len(ledger.budgets) : ledger.budgets[i].monthly_limit >= 0

\* the step is an accepted submission whose save fails
SaveFailsAfterSubmit ==
    /\ form.kind # "None"
    /\ ev'.op = "key" /\ ev'.io \in {"fail", "torn"}

\* C17: when the save that follows an accepted submission fails, the new
\* transaction or the budget upsert stays in the ledger, the form is closed,
\* and handle_key returns without error and without quitting.
C17_FailedSaveStep ==
    SaveFailsAfterSubmit =>
        /\ form' = NoForm
        /\ status' = "running"
        /\ last_save' = last_save
        /\ form.kind = "Transaction" =>
             /\ Len(ledger'.transactions) = Len(ledger.transactions) + 1
             /\ \E i \in 1..Len(ledger'.transactions) :
                  /\ ledger'.transactions[i].id = ledger.next_tx_id
                  /\ ledger'.transactions[i].description = Core(form.fields[1])
             /\ ledger'.next_tx_id = ledger.next_tx_id + 1
        /\ form.kind = "Budget" =>
             \E i \in 1..Len(ledger'.budgets) :
                  /\ ledger'.budgets[i].category = Core(form.fields[1])
                  /\ ledger'.budgets[i].monthly_limit
                        = ParseF64(Core(form.fields[2])).val

C17_NoRollback == [][C17_FailedSaveStep]_vars

\* C17 happens: the write of the file failed half way after a transaction was
\* accepted; the sample ledger has one row more and the file is unreadable
C17_Witness ==
    /\ Submitted("Transaction")
    /\ ev.io = "torn"
    /\ form = NoForm
    /\ status = "running"
    /\ disk = FileCorrupt
    /\ last_save = "None"
    /\ Len(ledger.transactions) = Len(with_sample_data(now).transactions) + 1

\* the messages handle_key and App::new set when nothing has failed
QuietMessages ==
    {"Loaded data", "Transaction added", "Budget saved", "Reloaded data",
     SavedMessage, "Cancelled transaction", "Cancelled budget edit"}

\* C18: whenever a save or a reload fails after startup ('s' or 'r' with no form
\* active, or the save after an accepted submission), last_message tells the
\* user of the failure and the session keeps running.
C18_FailureStep ==
    (ev'.op = "key" /\ ev'.io \in {"fail", "torn"}) =>
        /\ status' = "running"
        /\ last_message' # last_message
        /\ last_message' \notin QuietMessages

C18_FailureSurfaced == [][C18_FailureStep]_vars

\* the step moves the focus forward or backward
MovesForward ==
    /\ form.kind # "None"
    /\ ev'.op = "key"
    /\ \/ ev'.key.code \in {"Tab", "Right"}
       \/ ev'.key.code = "Enter" /\ form.index + 1 < Len(form.fields)

MovesBackward ==
    /\ form.kind # "None"
    /\ ev'.op = "key"
    /\ ev'.key.code \in {"BackTab", "Left"}

FieldCount(kind) == IF kind = "Transaction" THEN 4 ELSE 2

C19_InBounds ==
    form.kind # "None" =>
        /\ Len(form.fields) = FieldCount(form.kind)
        /\ 0 <= form.index /\ form.index < Len(form.fields)

C19_MoveStep ==
    /\ MovesForward =>
         /\ form'.kind = form.kind
         /\ form'.fields = form.fields
         /\ form'.index = IF form.index = Len(form.fields) - 1 THEN form.index
                          ELSE form.index + 1
    /\ MovesBackward =>
         /\ form'.kind = form.kind
         /\ form'.fields = form.fields
         /\ form'.index = IF form.index = 0 THEN 0 ELSE form.index - 1
    /\ (form.kind # "None" /\ form'.kind # "None") =>
         /\ form'.kind = form.kind
         /\ Len(form'.fields) = Len(form.fields)

\* C19: for both forms the focus index stays within 0 .. number of fields - 1
\* (4 fields for the transaction form, 2 for the budget form, a count no key
\* changes); a forward move on the last field and a backward move on the first
\* leave it unchanged, and every other move changes it by exactly one.
C19_FocusClamped == []C19_InBounds /\ [][C19_MoveStep]_vars

\* C19 happens: Tab on the last field of the transaction form left the focus
\* on the last field
C19_Witness ==
    /\ ev.op = "key" /\ ev.key.code = "Tab"
    /\ ev.form.kind = "Transaction" /\ ev.form.index = 3
    /\ form = ev.form

C20_AdvanceStep ==
    /\ (/\ form.kind # "None"
        /\ ev'.op = "key" /\ ev'.key.code = "Enter"
        /\ form.index + 1 < Len(form.fields)) =>
         /\ form' = [form EXCEPT !.index = form.index + 1]
         /\ ledger' = ledger
         /\ disk' = disk
         /\ last_message' = last_message
         /\ last_save' = last_save
         /\ status' = "running"
    /\ (form.kind # "None" /\ ledger' # ledger) =>
         /\ ev'.key.code = "Enter"
         /\ form.index = Len(form.fields) - 1
    /\ (form.kind = "None" /\ form'.kind # "None") => form'.index = 0
    /\ (form.kind # "None" /\ form'.kind # "None") => form'.index <= form.index + 1

\* C20: Enter on a field that is not the last only moves the focus forward by
\* one: no submission, no change of the ledger, the form stays open and no
\* message is set, even when every field is valid; the ledger changes under a
\* form only by Enter on the last field, a form opens with the focus on field
\* 0 and no key moves the focus forward by more than one, so number of
\* fields - 1 forward moves come before any change of the ledger.
C20_AdvanceOnlyMoves == [][C20_AdvanceStep]_vars

\* C20 happens: Enter on the category field of a transaction form whose four
\* fields would all be accepted
C20_Witness ==
    /\ ev.op = "key" /\ ev.key.code = "Enter"
    /\ ev.form.kind = "Transaction" /\ ev.form.index = 2
    /\ TxForm_try_submit(ev.form, now).ok
    /\ form = [ev.form EXCEPT !.index = 3]
    /\ ledger = with_sample_data(now)
    /\ last_message = "Loaded data"

----------------------------------------------------------------------------
(* Frame properties of handle_key *)

\* the step is a key event that finds this kind of form (or "None")
KeyOn(kind) == ev'.op = "key" /\ form.kind = kind

\* the step is Enter on the last field of a form that try_submit accepts
AcceptsTx == Submitting("Transaction") /\ TxForm_try_submit(form, now).ok

AcceptsBudget == Submitting("Budget") /\ BudgetForm_try_submit(form).ok

\* the step is 'r' with no form active
Reloads == KeyOn("None") /\ ev'.key.code = "Char" /\ ev'.key.ch = "r"

\* what the accepted forms hand to the ledger
C21_SubmitEffect ==
    /\ AcceptsTx =>
         LET tx == TxForm_try_submit(form, now)
         IN  ledger' = add_transaction(ledger, tx.description, tx.amount,
                                       tx.category, tx.date)
    /\ AcceptsBudget =>
         LET budget == BudgetForm_try_submit(form)
         IN  ledger' = add_or_update_budget(ledger, budget.category,
                                            budget.monthly_limit)
    /\ (ev'.op = "key" /\ ~AcceptsTx /\ ~AcceptsBudget /\ ~Reloads) =>
         ledger' = ledger

\* C21 as stated: a key event leaves the ledger unchanged unless it is Enter on
\* the last field of a form that validates (one add_transaction or one
\* add_or_update_budget) or 'r' with no form active, and then the ledger is
\* replaced by the persisted one.
C21_AsStatedStep ==
    /\ C21_SubmitEffect
    /\ Reloads =>
         \/ ledger' = ledger
         \/ disk.kind = "file" /\ ledger' = Deserialize(disk.data)

C21_AsStated == [][C21_AsStatedStep]_vars

\* C21: a key event leaves the ledger unchanged unless it is Enter on the last
\* field of a form that validates (one add_transaction or one
\* add_or_update_budget) or 'r' with no form active; a reload that succeeds
\* replaces the ledger by the persisted one, or by fresh sample data when no
\* file exists, and a reload that fails leaves it unchanged.
C21_FrameStep ==
    /\ C21_SubmitEffect
    /\ Reloads =>
         ledger' = IF ev'.io # "ok" THEN ledger
                   ELSE IF disk.kind = "absent" THEN with_sample_data(now)
                   ELSE Deserialize(disk.data)

C21_LedgerFrame == [][C21_FrameStep]_vars

\* C21 happens: a transaction was added, its save failed, and 'r' put the
\* ledger of the file back in its place
C21_Witness ==
    /\ ev.op = "key" /\ ev.key.code = "Char" /\ ev.key.ch = "r"
    /\ ev.form.kind = "None"
    /\ ev.io = "ok"
    /\ ev.msg = "Transaction added"
    /\ disk = FileOf(OldLedger)
    /\ ledger = OldLedger
    /\ last_message = "Reloaded data"

\* the focused field of form f with the text s in place of its own
WithFocused(f, s) ==
    [f EXCEPT !.fields = [i \in 1..Len(f.fields) |->
                             IF i = f.index + 1 THEN s ELSE f.fields[i]]]

C22_FormStep ==
    (ev'.op = "key" /\ form.kind # "None") =>
        /\ active_tab' = active_tab
        /\ show_suggestions' = show_suggestions
        /\ status' = "running"
        /\ form'.kind \in {form.kind, "None"}
        /\ (~AcceptsTx /\ ~AcceptsBudget) =>
             /\ disk' = disk
             /\ last_save' = last_save
             /\ ledger' = ledger
             /\ last_message' \notin {SavedMessage, "Reloaded data"}
        /\ ev'.key.code = "Char" =>
             /\ form' = WithFocused(form, form.fields[form.index + 1]
                                            \o <<ev'.key.ch>>)
             /\ last_message' = last_message

C22_IdleOnlyStep ==
    (/\ ev'.op = "key"
     /\ \/ active_tab' # active_tab
        \/ show_suggestions' # show_suggestions
        \/ status' = "quit"
        \/ form'.kind \notin {form.kind, "None"}
        \/ last_message' = "Reloaded data"
        \/ ev'.io # "none" /\ ~AcceptsTx /\ ~AcceptsBudget)
    => form.kind = "None"

\* C22: while a form is active no key acts as idle navigation: the active tab
\* and the suggestions flag stay, nothing is saved or reloaded on request, no
\* second form opens and handle_key never signals quit; q, h, l, a, b, s, g, r
\* and the c of Ctrl-c are appended to the focused field. Tab switching,
\* opening a form, save, reload, toggle and quit happen only with no form.
C22_FormConsumesKeys == [][C22_FormStep /\ C22_IdleOnlyStep]_vars

\* C22 happens: Ctrl-c in a budget form put a c at the end of the focused
\* field and the session goes on
C22_Witness ==
    /\ ev.op = "key" /\ ev.key = CtrlC
    /\ ev.form.kind = "Budget"
    /\ form = WithFocused(ev.form, ev.form.fields[ev.form.index + 1] \o <<"c">>)
    /\ status = "running"

C23_EditStep ==
    (ev'.op = "key" /\ form.kind # "None") =>
        LET text == form.fields[form.index + 1]
        IN  /\ ev'.key.code = "Char" =>
                 /\ form'.fields[form.index + 1] = Append(text, ev'.key.ch)
                 /\ Len(form'.fields[form.index + 1]) = Len(text) + 1
            /\ ev'.key.code = "Backspace" =>
                 form'.fields[form.index + 1] =
                     IF text = <<>> THEN <<>> ELSE SubSeq(text, 1, Len(text) - 1)
            /\ ev'.key.code \in {"Char", "Backspace"} =>
                 /\ form'.kind = form.kind
                 /\ form'.index = form.index
                 /\ Len(form'.fields) = Len(form.fields)
                 /\ \A i \in 1..Len(form.fields) :
                      i # form.index + 1 => form'.fields[i] = form.fields[i]
                 /\ ledger' = ledger

\* C23: a character typed in an active form is appended to the end of the
\* focused field's text and nowhere else; Backspace removes the last character
\* of the focused field's text and nothing when it is empty; both leave the
\* focus index, the other fields and the ledger as they were.
C23_EditsFocusedField == [][C23_EditStep]_vars

\* C23 happens: Backspace on the amount field took the x off "12.5x"
C23_Witness ==
    /\ ev.op = "key" /\ ev.key.code = "Backspace"
    /\ ev.form.kind = "Transaction" /\ ev.form.index = 1
    /\ ev.form.fields[2] = <<"1", "2", ".", "5", "x">>
    /\ form = WithFocused(ev.form, <<"1", "2", ".", "5">>)
    /\ ledger = with_sample_data(now)

----------------------------------------------------------------------------
(* What an accepted submission hands to the ledger *)

\* the sequence s without its element number i
Without(s, i) == [k \in 1..(Len(s) - 1) |-> IF k < i THEN s[k] ELSE s[k + 1]]

C24_SubmitStep ==
    /\ AcceptsTx =>
         /\ form' = NoForm
         /\ Len(ledger'.transactions) = Len(ledger.transactions) + 1
         /\ \E i \in 1..Len(ledger'.transactions) :
              /\ ledger'.transactions[i] =
                    Transaction(ledger.next_tx_id,
                                Core(form.fields[1]),
                                ParseF64(Core(form.fields[2])).val,
                                IF Blank(form.fields[3]) THEN Str_General
                                ELSE Core(form.fields[3]),
                                IF Blank(form.fields[4]) THEN now
                                ELSE ParseDate(Core(form.fields[4])).val)
              /\ Without(ledger'.transactions, i) = ledger.transactions
         /\ ledger'.budgets = ledger.budgets
         /\ ledger'.next_budget_id = ledger.next_budget_id
    /\ AcceptsBudget =>
         /\ form' = NoForm
         /\ ledger' = add_or_update_budget(ledger, Core(form.fields[1]),
                                           ParseF64(Core(form.fields[2])).val)
         /\ ledger'.transactions = ledger.transactions

\* C24: when Enter on the last field of the transaction form passes
\* validation the form is discarded and the ledger gains exactly one
\* transaction with the trimmed description, the parsed amount, the trimmed or
\* defaulted category, the parsed or defaulted date and the id of the old
\* next_tx_id, the earlier transactions staying as they were; an accepted
\* budget form is discarded too and add_or_update_budget is applied with the
\* trimmed category and the parsed limit.
C24_SubmitHandsOver == [][C24_SubmitStep]_vars

\* C24 happens: description " x ", amount " 5 ", category " Fun" and date
\* "2025-3-7" went into the sample ledger as row 14
C24_Witness ==
    /\ Submitted("Transaction")
    /\ ev.form.fields = << <<" ", "x", " ">>, <<" ", "5", " ">>,
                           <<" ", "F", "u", "n">>,
                           <<"2", "0", "2", "5", "-", "3", "-", "7">> >>
    /\ form = NoForm
    /\ \E i \in 1..Len(ledger.transactions) :
         ledger.transactions[i] =
            Transaction(14, <<"x">>, 500, Str_Fun, Date(2025, 3, 7))

----------------------------------------------------------------------------
(* The counters over a session, and the order of rows of one date *)

C25_CounterStep ==
    /\ ledger'.next_tx_id >= ledger.next_tx_id
    /\ ledger'.next_budget_id >= ledger.next_budget_id
    /\ AcceptsTx =>
         /\ ledger.next_tx_id \in TxIds(ledger') \ TxIds(ledger)
         /\ ledger'.next_tx_id = ledger.next_tx_id + 1

\* C25: over any sequence of key events of one session (submissions, saves
\* that succeed or fail, reloads) next_tx_id and next_budget_id never go down,
\* and every created transaction takes the counter's value and raises it, so
\* that no id is given to two created transactions.
C25_CountersNeverDecrease == [][C25_CounterStep]_vars

C26_SameDateInIdOrder ==
    \A i, j \in 1..Len(ledger.transactions) :
        (i < j /\ ledger.transactions[i].date = ledger.transactions[j].date)
        => ledger.transactions[i].id < ledger.transactions[j].id

C26_AddStep ==
    ev'.op = "add_transaction" =>
        \E i \in 1..Len(ledger'.transactions) :
            /\ ledger'.transactions[i].id = ledger.next_tx_id
            /\ Without(ledger'.transactions, i) = ledger.transactions
            /\ \A k \in 1..Len(ledger'.transactions) :
                 ledger'.transactions[k].date = ledger'.transactions[i].date
                 => k <= i

\* C26: in a ledger built from the empty one by add_transaction calls the
\* transactions of one date stand in the order of their insertion, which is
\* the ascending order of their ids: each new transaction goes after all
\* stored ones of its date, and add_transaction changes, drops and doubles no
\* stored transaction.
C26_StableOrder == []C26_SameDateInIdOrder /\ [][C26_AddStep]_vars

\* C26 happens: three rows of today went into the empty ledger and stand in
\* the order 1, 2, 3
C26_Witness ==
    /\ ev.op = "add_transaction"
    /\ Len(ledger.transactions) = 3
    /\ \A i \in 1..3 : /\ ledger.transactions[i].id = i
                       /\ ledger.transactions[i].date = now

----------------------------------------------------------------------------
(* The derivations of one month against each other (SpecF64) *)

\* the f64 sum of the totals, added in the order of the sequence
RECURSIVE F64SumTotals(_)
F64SumTotals(pairs) ==
    IF pairs = <<>> THEN F64Zero
    ELSE F64Add(F64SumTotals(SubSeq(pairs, 1, Len(pairs) - 1)),
                pairs[Len(pairs)].total)

\* the exact sum of the magnitudes of the first n amounts of the ledger
RECURSIVE MagSumTo(_)
MagSumTo(n) ==
    IF n = 0 THEN [hi |-> 0, lo |-> 0]
    ELSE MagAdd(MagSumTo(n - 1), F64Mag(ledger.transactions[n].amount))

\* no sum over amounts of the ledger can need rounding: their magnitudes add
\* up to less than 2^53
SumsAreExact == MagSumTo(Len(ledger.transactions)).hi < F64Base \div 2

\* the two relations, for the results in view
MonthRelations ==
    /\ F64SumTotals(view.cat_spend) = view.overview.total_outgoing
    /\ \A i \in 1..Len(view.cashflow) :
         view.cashflow[i].label = MonthLabel(now.y, now.m)
         => view.cashflow[i].total = view.overview.net

\* C27 as stated: for every ledger and current date the totals of
\* category_spending_current_month add up to total_outgoing of
\* current_month_overview, and for months >= 1 the current-month bucket of
\* spending_last_n_months, when there is one, equals the overview's net.
C27_AsStated == ev.op = "month" => MonthRelations

\* C27: the same two equalities, for every ledger whose amounts are whole
\* numbers with magnitudes that add up to less than 2^53, so that no f64 sum
\* is rounded.
C27_MonthRelations == (ev.op = "month" /\ SumsAreExact) => MonthRelations

\* C27 happens: spending of 1 in two categories, one of them on the first of
\* the month, and an income of 1 on the 28th
C27_Witness ==
    /\ ev.op = "month"
    /\ SumsAreExact
    /\ Len(view.cat_spend) = 2
    /\ view.overview.total_outgoing = F64(FALSE, 0, 2)
    /\ view.overview.net = F64(TRUE, 0, 1)
    /\ Len(view.cashflow) = 1
    /\ view.cashflow[1].total = F64(TRUE, 0, 1)
    /\ MonthRelations

====
